---- MODULE Spec2Model ----
(***************************************************************************)
(* Model of the HIP plugin's runtime object model (sycl/plugins/hip/       *)
(* pi_hip.hpp): the _pi_queue stream pools (round-robin selection, stream  *)
(* reuse by dependency, barrier application, sync_streams), the queue's    *)
(* mutexes, and the atomic reference counters of the PI objects.           *)
(*                                                                         *)
(* The specifications of the module:                                       *)
(*   Spec      one caller; every queue operation is one atomic action      *)
(*   ConcSpec  several submitter threads; one action per lock operation    *)
(*             or unlocked access of the queue's stream-selection code     *)
(*   RcSpec    several threads retaining and releasing one PI object       *)
(*   RcMisuseSpec  RcSpec with callers that retain or release at count 0   *)
(*   DelSpec   one context, its destruction callbacks and its users        *)
(*   ObjSpec   the objects of a platform, what they hold, and the create / *)
(*             retain / release calls of the dispatch layer                *)
(*   EvSpec    events, the driver completing them, and waiting threads     *)
(***************************************************************************)
EXTENDS Integers, Sequences, FiniteSets, TLC

\* ------------------------------------------------------------------ bounds
\* largest compute_streams_.size() and transfer_streams_.size() a queue is
\* constructed with
MaxComputeStreams == 3
MaxTransferStreams == 2
\* number of queue operations one behaviour of Spec performs
MaxOps == 5
\* longest event_wait_list handed to a stream selection
MaxWaitList == 2
\* submitter threads of ConcSpec and the operations they start in all
NumThreads == 2
MaxConcOps == 3
\* commands already submitted, one after the other and without dependencies,
\* when the threads of ConcSpec start
MaxPriorCommands == 2
\* threads of RcSpec and the largest reference count they build up
NumRcThreads == 3
MaxRefs == 3
\* the object graph (ObjSpec): objects made besides the platform's device
MaxObjects == 3
\* the largest count an object of the graph is taken to
MaxObjRefs == 2
\* destruction callbacks registered on the context (DelSpec)
MaxDeleters == 2
\* of the threads of RcSpec, those that use the context in DelSpec
NumDelThreads == 2
\* events and threads waiting on them (EvSpec)
NumEvents == 2
NumWaiters == 2
\* the buffer of MapSpec: its largest size in bytes (map offsets are
\* 0 .. size - 1) and the calls made on it
MaxBufSize == 3
MaxMapCalls == 4
\* the argument table of ArgSpec: the capacity of storage_ in bytes (4000 in
\* the program), the largest argument index and size of add_arg, and the
\* calls made on the table
MAX_PARAM_BYTES == 16
MaxArgIndex == 2
MaxArgSize == 2
MaxArgCalls == 3
\* event ids handed out in one behaviour of PoolSpec
MaxEventIds == 3
\* WrapSpec: the round-robin position starts at most this far below 2^w
MaxWrapMargin == 3

\* ------------------------------------------------------- program constants
\* pi_uint32 / std::atomic_uint32_t arithmetic is modular. TLC's integers are
\* 32-bit signed, so the unsigned word is modelled with 30 bits: every
\* counter, token and difference below is taken modulo 2^30 instead of 2^32.
UINT32 == 1073741824
\* std::numeric_limits<pi_uint32>::max(): the stream token of an event that
\* is not associated with a compute stream
Sentinel == UINT32 - 1

\* sizeof(size_t), the bytes add_local_arg stores for a local argument
SizeofSizeT == 8
\* max_alignment of add_local_arg: sizeof(double) * 16
MaxAlignment == 128
\* sizeof(std::uint32_t): the word of implicitOffsetArgs_
SizeofUint32 == 4
\* the values of one byte
ByteRange == 256

\* unsigned 32-bit subtraction and increment
Sub32(a, b) == (a - b + UINT32) % UINT32
\* an increment that is lost
Inc32Lost(a) == a % UINT32
Inc32(a) == (a + 1) % UINT32

VARIABLES
  \* ---- _pi_queue fields
  NumComputeStreams,         \* compute_streams_.size()
  NumTransferStreams,        \* transfer_streams_.size()
  compute_stream_idx_,
  transfer_stream_idx_,
  num_compute_streams_,
  num_transfer_streams_,
  last_sync_compute_streams_,
  last_sync_transfer_streams_,
  delay_compute_,
  compute_applied_barrier_,
  transfer_applied_barrier_,
  barrier_event_,            \* 0: nullptr; n > 0: the event as recorded by the n-th barrier
  \* ---- what the driver saw and what the caller got (history)
  opCount,                   \* queue operations performed so far
  lastOp,                    \* the operation performed last and its result
  events,                    \* stream tokens of the events made so far
  computeWaitGen,            \* per compute stream: barrier whose event it waited on last
  transferWaitGen,
  computeWaits,              \* per compute stream: waits injected since the last barrier
  transferWaits,
  computeWork,               \* per compute stream: commands issued since the last barrier
  transferWork,
  reusedEver,                \* some stream selection reused a dependency's stream
  nComputeCalls,             \* stream selections served from the compute pool
  nTransferCalls,            \* get_next_transfer_stream calls
  preSyncTokens,             \* tokens of events made before the last sync_streams<true>
  \* ---- the queue's mutexes and the submitter threads (ConcSpec)
  mutex,                     \* per std::mutex of the queue: 0 (free) or the owning thread
  pc,                        \* per thread: where it is in the operation it runs
  tWaitList,                 \* per thread: event_wait_list (stream tokens)
  tIdx,                      \* per thread: loop index i into the wait list
  tToken,                    \* per thread: token of the stream it was given
  tSlot,                     \* per thread: slot of the stream it was given
  tGuard,                    \* per thread: its _pi_stream_guard owns a lock
  tReset,                    \* per thread: ResetUsed of the sync_streams it runs
  concOps,                   \* operations started
  \* ---- one reference-counted PI object and its users (RcSpec)
  refCount_,
  held,                      \* per thread: references it owns
  rcPc,                      \* per thread: "idle" or "released" (a release returned)
  rcRet,                     \* per thread: what its last retain/release returned
  destroyedBy,               \* threads that destroyed the object, in order
  zeroedBy,                  \* thread whose decrement took refCount_ from 1 to 0 (0: none)
  \* ---- the PI objects of one platform and what they hold (ObjSpec)
  objs,                      \* the objects made so far, by handle 1, 2, ...
  objLast,                   \* the last create / retain / release call and its result
  \* ---- the destruction callbacks of one _pi_context (DelSpec)
  extended_deleters_,
  mutex_,                    \* _pi_context::mutex_: 0 (free) or the owning thread
  registered,                \* callbacks in the order set_extended_deleter took them
  invoked,                   \* callbacks in the order they were called
  delCb,                     \* per thread: the callback it is registering
  delIt,                     \* per thread: position of its loop in extended_deleters_
  \* ---- _pi_event objects, the driver and waiting threads (EvSpec)
  isStarted_,
  isRecorded_,
  hasBeenWaitedOn_,
  evDone,                    \* per event: the driver has completed the work recorded in evEnd_
  evWaiting,                 \* per thread: the event whose wait() it is in (0: none)
  evSeen,                    \* per event: what get_execution_status returned last
  waitReturned,              \* per event: some wait() on it has returned
  \* ---- one buffer (_pi_mem::mem_::buffer_mem_) and the host heap (MapSpec)
  hostPtr_,
  size_,
  mapOffset_,
  mapPtr_,
  mapFlags_,
  mapMade,                   \* the buffer has been constructed
  mapHeap,                   \* the live blocks of malloc
  mapAllocs,                 \* calls of malloc made so far
  mapCalls,                  \* calls made on the buffer
  mapLast,                   \* the last call on the buffer and what it did
  mapHalt,                   \* "no", or why the process stopped
  \* ---- the argument table of one kernel (_pi_kernel::arguments) (ArgSpec)
  storage_,
  paramSizes_,
  indices_,
  offsetPerIndex_,
  implicitOffsetArgs_,
  argWritten,                \* per index: the bytes its last add_arg copied in
  argCalls,                  \* calls made on the table
  argLast,                   \* the last call on the table
  argHalt,                   \* "no", or why the process stopped
  \* ---- event ids and stream visits of one queue (PoolSpec)
  eventCount_,
  eventIds,                  \* the ids get_next_event_id returned, in order
  tOp,                       \* per thread: the visiting function it runs or ran last
  tVisit,                    \* per thread: <<pool, slot, f's result>> of each call of f
  tRet                       \* per thread: what its last all_of returned

queueVars == <<NumComputeStreams, NumTransferStreams, compute_stream_idx_, transfer_stream_idx_, num_compute_streams_,
               num_transfer_streams_, last_sync_compute_streams_,
               last_sync_transfer_streams_, delay_compute_,
               compute_applied_barrier_, transfer_applied_barrier_, barrier_event_>>

\* the history without the set of events made
histRest == <<opCount, lastOp, computeWaitGen, transferWaitGen,
              computeWaits, transferWaits, computeWork, transferWork,
              reusedEver, nComputeCalls, nTransferCalls, preSyncTokens>>

histVars == <<events, histRest>>

concVars == <<mutex, pc, tWaitList, tIdx, tToken, tSlot, tGuard, tReset, concOps>>

rcVars == <<refCount_, held, rcPc, rcRet, destroyedBy, zeroedBy>>

objVars == <<objs, objLast>>

delVars == <<extended_deleters_, mutex_, registered, invoked, delCb, delIt>>

evVars == <<isStarted_, isRecorded_, hasBeenWaitedOn_, evDone, evWaiting,
            evSeen, waitReturned>>

mapVars == <<hostPtr_, size_, mapOffset_, mapPtr_, mapFlags_, mapMade, mapHeap,
             mapAllocs, mapCalls, mapLast, mapHalt>>

argVars == <<storage_, paramSizes_, indices_, offsetPerIndex_,
             implicitOffsetArgs_, argWritten, argCalls, argLast, argHalt>>

poolVars == <<eventCount_, eventIds, tOp, tVisit, tRet>>

vars == <<queueVars, histVars, concVars, rcVars, objVars, delVars, evVars,
          mapVars, argVars, poolVars>>

Threads == 1 .. NumThreads
RcThreads == 1 .. NumRcThreads

ComputeSlots == 0 .. (NumComputeStreams - 1)
TransferSlots == 0 .. (NumTransferStreams - 1)

\* ------------------------------------------------------------- _pi_queue

NoOp == [kind |-> "none", pool |-> "none", slot |-> 0, token |-> Sentinel,
         reused |-> FALSE, waited |-> FALSE, wait_list |-> <<>>,
         reset |-> FALSE, fn_compute |-> <<>>, fn_transfer |-> <<>>,
         n_ranges_compute |-> 0, n_ranges_transfer |-> 0]

\* _pi_queue::_pi_queue: the member initializers
QueueInit ==
  /\ NumComputeStreams \in 1 .. MaxComputeStreams
  /\ NumTransferStreams \in 1 .. MaxTransferStreams
  /\ compute_stream_idx_ = 0
  /\ transfer_stream_idx_ = 0
  /\ num_compute_streams_ = 0
  /\ num_transfer_streams_ = 0
  /\ last_sync_compute_streams_ = 0
  /\ last_sync_transfer_streams_ = 0
  /\ delay_compute_ = [i \in ComputeSlots |-> FALSE]
  /\ compute_applied_barrier_ = [i \in ComputeSlots |-> FALSE]
  /\ transfer_applied_barrier_ = [i \in TransferSlots |-> FALSE]
  /\ barrier_event_ = 0

HistInit ==
  /\ opCount = 0
  /\ lastOp = NoOp
  /\ events = {}
  /\ computeWaitGen = [i \in ComputeSlots |-> 0]
  /\ transferWaitGen = [i \in TransferSlots |-> 0]
  /\ computeWaits = [i \in ComputeSlots |-> 0]
  /\ transferWaits = [i \in TransferSlots |-> 0]
  /\ computeWork = [i \in ComputeSlots |-> 0]
  /\ transferWork = [i \in TransferSlots |-> 0]
  /\ reusedEver = FALSE
  /\ nComputeCalls = 0
  /\ nTransferCalls = 0
  /\ preSyncTokens = {}

\* the std::mutex members of _pi_queue that stream selection and
\* sync_streams lock
MutexNames == {"compute_stream_sync_mutex_", "compute_stream_mutex_",
               "transfer_stream_mutex_"}

\* no thread is inside a queue operation
ConcInit ==
  /\ mutex = [m \in MutexNames |-> 0]
  /\ pc = [t \in Threads |-> "idle"]
  /\ tWaitList = [t \in Threads |-> <<>>]
  /\ tIdx = [t \in Threads |-> 1]
  /\ tToken = [t \in Threads |-> Sentinel]
  /\ tSlot = [t \in Threads |-> 0]
  /\ tGuard = [t \in Threads |-> FALSE]
  /\ tReset = [t \in Threads |-> FALSE]
  /\ concOps = 0

\* a PI object right after construction (refCount_{1}); the creating thread
\* owns the one reference
RcInit ==
  /\ refCount_ = 1
  /\ held = [t \in RcThreads |-> IF t = 1 THEN 1 ELSE 0]
  /\ rcPc = [t \in RcThreads |-> "idle"]
  /\ rcRet = [t \in RcThreads |-> 0]
  /\ destroyedBy = <<>>
  /\ zeroedBy = 0

\* ---------------------------------------------------------- PI objects

Kinds == {"device", "context", "buffer", "image", "queue", "program",
          "kernel", "sampler"}

\* an object right after the member initialisers of its constructor ran:
\* every constructor sets refCount_{1}.  0 stands for a null handle.
\* ext is history: the references callers own (1 for the creator)
NewObj(kind, context, device, parent, program) ==
  [kind |-> kind, refCount_ |-> 1, live |-> TRUE,
   context_ |-> context, device_ |-> device, parent_ |-> parent,
   program_ |-> program, ext |-> 1]

\* a call of the dispatch layer: the handle it was about, what the counter
\* operation returned, the handle's count before it (was) and, for a create,
\* every count before it (before); for a release that follows a create or a
\* retain of the same handle at once, that call (prevOp) and its was / before
NoCall == [op |-> "none", obj |-> 0, ret |-> 0, was |-> 0, before |-> <<>>,
           prevOp |-> "none", prevWas |-> 0, prevBefore |-> <<>>]

\* the platform's one device exists; nothing else was made
ObjInit ==
  /\ objs = <<NewObj("device", 0, 0, 0, 0)>>
  /\ objLast = NoCall

\* a context right after construction: no callback registered
DelInit ==
  /\ extended_deleters_ = <<>>
  /\ mutex_ = 0
  /\ registered = <<>>
  /\ invoked = <<>>
  /\ delCb = [t \in RcThreads |-> 0]
  /\ delIt = [t \in RcThreads |-> 0]

EventIds == 1 .. NumEvents
Waiters == 1 .. NumWaiters

\* events right after make_native: not started, not recorded, not waited on
EvInit ==
  /\ isStarted_ = [e \in EventIds |-> FALSE]
  /\ isRecorded_ = [e \in EventIds |-> FALSE]
  /\ hasBeenWaitedOn_ = [e \in EventIds |-> FALSE]
  /\ evDone = [e \in EventIds |-> FALSE]
  /\ evWaiting = [t \in Waiters |-> 0]
  /\ evSeen = [e \in EventIds |-> "none"]
  /\ waitReturned = [e \in EventIds |-> FALSE]

\* a pointer: null, into the caller's host memory, or into a block of malloc
NullPtr == [region |-> "null", block |-> 0, off |-> 0]
\* the host_ptr a buffer is created with when the caller supplies one
HostMem == [region |-> "host", block |-> 0, off |-> 0]
\* the pointer malloc returns for its n-th block
BlockPtr(n) == [region |-> "scratch", block |-> n, off |-> 0]
\* static_cast<char *>(p) + n
PtrAdd(p, n) == [p EXCEPT !.off = @ + n]

\* pi_map_flags values a caller maps with
MapFlagValues == {"PI_MAP_READ", "PI_MAP_WRITE", "PI_MAP_WRITE_INVALIDATE_REGION"}

\* no call has been made on the buffer
NoMapCall ==
  [op |-> "none", accepted |-> TRUE, offset |-> 0, flags |-> "PI_MAP_WRITE",
   was |-> NullPtr, ret |-> NullPtr, allocated |-> {}, freed |-> <<>>,
   prevOp |-> "none"]

\* before the buffer is constructed
MapInit ==
  /\ hostPtr_ = NullPtr
  /\ size_ = 0
  /\ mapOffset_ = 0
  /\ mapPtr_ = NullPtr
  /\ mapFlags_ = "PI_MAP_WRITE"
  /\ mapMade = FALSE
  /\ mapHeap = {}
  /\ mapAllocs = 0
  /\ mapCalls = 0
  /\ mapLast = NoMapCall
  /\ mapHalt = "no"

ArgIndexes == 0 .. MaxArgIndex

\* &implicitOffsetArgs_ and &storage_[pos]
ImplicitPtr == [region |-> "implicitOffsetArgs_", block |-> 0, off |-> 0]
StoragePtr(pos) == [region |-> "storage_", block |-> 0, off |-> pos]

\* a byte of storage_ that nothing has been copied to yet
Indeterminate == 0 - 1

\* index never set
NotSet == [kind |-> "unset", bytes |-> <<>>, align |-> 0, local |-> 0]

NoArgCall ==
  [op |-> "none", accepted |-> TRUE, index |-> 0, size |-> 0, localBefore |-> 0,
   words |-> <<>>, ops |-> {}, copyEnd |-> 0]

\* _pi_kernel::arguments::arguments(): the pointer list holds the
\* implicit-offset block alone, the other tables are empty
ArgInit ==
  /\ storage_ = [k \in 1 .. MAX_PARAM_BYTES |-> Indeterminate]
  /\ paramSizes_ = <<>>
  /\ indices_ = <<ImplicitPtr>>
  /\ offsetPerIndex_ = <<>>
  /\ implicitOffsetArgs_ = <<0, 0, 0>>
  /\ argWritten = [i \in ArgIndexes |-> NotSet]
  /\ argCalls = 0
  /\ argLast = NoArgCall
  /\ argHalt = "no"

\* eventCount_{0}; no thread has visited the streams
PoolInit ==
  /\ eventCount_ = 0
  /\ eventIds = <<>>
  /\ tOp = [t \in Threads |-> "none"]
  /\ tVisit = [t \in Threads |-> <<>>]
  /\ tRet = [t \in Threads |-> TRUE]

Init ==
  /\ QueueInit /\ HistInit /\ ConcInit /\ RcInit /\ ObjInit /\ DelInit /\ EvInit
  /\ MapInit /\ ArgInit /\ PoolInit

\* _pi_queue::has_been_synchronized
has_been_synchronized(stream_token) ==
  IF stream_token = Sentinel
    THEN FALSE
    ELSE last_sync_compute_streams_ >= stream_token

\* can_reuse_stream without the check for a sync after the command
can_reuse_stream_unsynced(stream_token) ==
  IF stream_token = Sentinel
    THEN FALSE
    ELSE Sub32(compute_stream_idx_, stream_token) <= NumComputeStreams

\* _pi_queue::can_reuse_stream
can_reuse_stream(stream_token) ==
  IF stream_token = Sentinel
    THEN FALSE
    ELSE LET is_last_command ==
               Sub32(compute_stream_idx_, stream_token) <= NumComputeStreams
         IN  is_last_command /\ ~has_been_synchronized(stream_token)

\* the slot taken from the index after its increment
SlotOfIncremented(token, size) == (token + 1) % size

\* slot of the pool a token denotes: token % streams.size()
SlotOf(token, size) == token % size

\* _pi_queue::get_next_compute_stream(stream_token): the selection loop. Each
\* pass creates the next stream while the pool is not fully created, takes
\* token = compute_stream_idx_++ and skips (once, clearing the flag) a slot
\* whose delay flag is set.
RECURSIVE RoundRobinCompute(_, _, _)
RoundRobinCompute(idx, num, delay) ==
  LET num2 == IF num < NumComputeStreams THEN num + 1 ELSE num
      stream_i == SlotOf(idx, NumComputeStreams)
  IN  IF delay[stream_i]
        THEN RoundRobinCompute(Inc32(idx), num2, [delay EXCEPT ![stream_i] = FALSE])
        ELSE [token |-> idx, slot |-> stream_i, reused |-> FALSE,
              idx |-> Inc32(idx), num |-> num2, delay |-> delay]

\* get_next_compute_stream(num_events_in_wait_list, event_wait_list, guard,
\* stream_token): the first event of the wait list whose stream can be
\* reused (0: none)
FirstReusable(wait_list) ==
  LET ok == {i \in 1 .. Len(wait_list) : can_reuse_stream(wait_list[i])}
  IN  IF ok = {} THEN 0 ELSE CHOOSE i \in ok : \A j \in ok : i <= j

\* the stream selected for a command with the given wait list
SelectCompute(wait_list) ==
  LET k == FirstReusable(wait_list)
  IN  IF k # 0
        THEN LET stream_i == SlotOf(wait_list[k], NumComputeStreams)
             IN  [token |-> wait_list[k], slot |-> stream_i, reused |-> TRUE,
                  idx |-> compute_stream_idx_, num |-> num_compute_streams_,
                  delay |-> [delay_compute_ EXCEPT ![stream_i] = TRUE]]
        ELSE RoundRobinCompute(compute_stream_idx_, num_compute_streams_,
                               delay_compute_)

\* compute_/transfer_stream_wait_for_barrier_if_needed: whether a wait on
\* barrier_event_ is injected into stream stream_i before the new work
NeedsBarrierWait(applied, stream_i) == barrier_event_ # 0 /\ ~applied[stream_i]

\* a wait that does not set the barrier-applied flag
AppliedAfterUnset(applied, stream_i) == applied

\* ... and the barrier-applied flags afterwards
AppliedAfter(applied, stream_i) ==
  IF NeedsBarrierWait(applied, stream_i)
    THEN [applied EXCEPT ![stream_i] = TRUE]
    ELSE applied

\* the wait lists a caller can pass: events of this queue made so far, and
\* events without a compute stream token (make_native's default)
WaitLists ==
  UNION {[1 .. n -> events \cup {Sentinel}] : n \in 1 .. MaxWaitList}

Bump(f, i) == [f EXCEPT ![i] = @ + 1]

\* what a stream selection from the compute pool leaves behind
ComputeSelected(sel, kind, wait_list) ==
  LET waited == NeedsBarrierWait(compute_applied_barrier_, sel.slot)
  IN  /\ compute_stream_idx_' = sel.idx
      /\ num_compute_streams_' = sel.num
      /\ delay_compute_' = sel.delay
      /\ compute_applied_barrier_' = AppliedAfter(compute_applied_barrier_, sel.slot)
      /\ computeWaitGen' = IF waited
                             THEN [computeWaitGen EXCEPT ![sel.slot] = barrier_event_]
                             ELSE computeWaitGen
      /\ computeWaits' = IF waited THEN Bump(computeWaits, sel.slot) ELSE computeWaits
      /\ computeWork' = Bump(computeWork, sel.slot)
      /\ events' = events \cup {sel.token}
      /\ reusedEver' = (reusedEver \/ sel.reused)
      /\ nComputeCalls' = nComputeCalls + 1
      /\ opCount' = opCount + 1
      /\ lastOp' = [NoOp EXCEPT !.kind = kind, !.pool = "compute",
                                !.slot = sel.slot, !.token = sel.token,
                                !.reused = sel.reused, !.waited = waited,
                                !.wait_list = wait_list]

\* a command without dependencies: get_next_compute_stream(&stream_token)
GetNextComputeStream ==
  /\ opCount < MaxOps
  /\ UNCHANGED <<concVars, rcVars, objVars, delVars, evVars, mapVars, argVars,
                 poolVars>>
  /\ ComputeSelected(SelectCompute(<<>>), "compute", <<>>)
  /\ UNCHANGED <<NumComputeStreams, NumTransferStreams,
                 transfer_stream_idx_, num_transfer_streams_,
                 last_sync_compute_streams_, last_sync_transfer_streams_,
                 transfer_applied_barrier_, barrier_event_, transferWaitGen,
                 transferWaits, transferWork, nTransferCalls, preSyncTokens>>

\* a command with dependencies: get_next_compute_stream(n, wait_list, guard,
\* &stream_token)
GetNextComputeStreamDep ==
  /\ opCount < MaxOps
  /\ UNCHANGED <<concVars, rcVars, objVars, delVars, evVars, mapVars, argVars,
                 poolVars>>
  /\ \E wait_list \in WaitLists :
       ComputeSelected(SelectCompute(wait_list), "compute_dep", wait_list)
  /\ UNCHANGED <<NumComputeStreams, NumTransferStreams,
                 transfer_stream_idx_, num_transfer_streams_,
                 last_sync_compute_streams_, last_sync_transfer_streams_,
                 transfer_applied_barrier_, barrier_event_, transferWaitGen,
                 transferWaits, transferWork, nTransferCalls, preSyncTokens>>

\* get_next_transfer_stream: round-robin over the transfer pool, no reuse
GetNextTransferStream ==
  /\ opCount < MaxOps
  /\ UNCHANGED <<concVars, rcVars, objVars, delVars, evVars, mapVars, argVars,
                 poolVars>>
  /\ LET stream_i == SlotOf(transfer_stream_idx_, NumTransferStreams)
         waited == NeedsBarrierWait(transfer_applied_barrier_, stream_i)
     IN  /\ num_transfer_streams_' = IF num_transfer_streams_ < NumTransferStreams
                                       THEN num_transfer_streams_ + 1
                                       ELSE num_transfer_streams_
         /\ transfer_stream_idx_' = Inc32(transfer_stream_idx_)
         /\ transfer_applied_barrier_' = AppliedAfter(transfer_applied_barrier_, stream_i)
         /\ transferWaitGen' = IF waited
                                 THEN [transferWaitGen EXCEPT ![stream_i] = barrier_event_]
                                 ELSE transferWaitGen
         /\ transferWaits' = IF waited THEN Bump(transferWaits, stream_i) ELSE transferWaits
         /\ transferWork' = Bump(transferWork, stream_i)
         /\ lastOp' = [NoOp EXCEPT !.kind = "transfer", !.pool = "transfer",
                                   !.slot = stream_i, !.waited = waited]
  /\ events' = events \cup {Sentinel}
  /\ nTransferCalls' = nTransferCalls + 1
  /\ opCount' = opCount + 1
  /\ UNCHANGED <<NumComputeStreams, NumTransferStreams,
                 compute_stream_idx_, num_compute_streams_,
                 last_sync_compute_streams_, last_sync_transfer_streams_,
                 delay_compute_, compute_applied_barrier_, barrier_event_,
                 computeWaitGen, computeWaits, computeWork, reusedEver,
                 nComputeCalls, preSyncTokens>>

\* sync_streams that always ends at the number of streams created
SyncEndCreated(num, idx, size) == num

\* sync_streams: end = num_streams < size ? num_streams : stream_idx.load()
SyncEnd(num, idx, size) == IF num < size THEN num ELSE idx

\* sync_streams that moves the frontier whatever ResetUsed is
LastSyncAfterAlways(reset, last_sync, end) == end

\* sync_streams: if (ResetUsed) last_sync = end
LastSyncAfter(reset, last_sync, end) == IF reset THEN end ELSE last_sync

\* sync_streams without the second call of the wrapped case
SyncCallsUnwrapped(start, end, size) ==
  IF Sub32(end, start) >= size
    THEN << <<0, size>> >>
    ELSE LET s == start % size
             e == end % size
         IN  IF s < e
               THEN << <<s, e>> >>
               ELSE << <<s, size>> >>

\* sync_streams: the calls sync_compute(start, stop) / sync_transfer(start,
\* stop) it makes for a pool, in order, as <<start, stop>> pairs
SyncCalls(start, end, size) ==
  IF Sub32(end, start) >= size
    THEN << <<0, size>> >>
    ELSE LET s == start % size
             e == end % size
         IN  IF s < e
               THEN << <<s, e>> >>
               ELSE << <<s, size>>, <<0, e>> >>

\* sync_compute / sync_transfer: for (i = start; i < stop; i++) f(streams[i])
Loop(start, stop) ==
  [k \in 1 .. (IF stop > start THEN stop - start ELSE 0) |-> start + k - 1]

\* the slots fn is applied to by a sequence of calls, in order
RECURSIVE Visited(_)
Visited(calls) ==
  IF calls = <<>>
    THEN <<>>
    ELSE Loop(calls[1][1], calls[1][2]) \o Visited(Tail(calls))

\* sync_compute that leaves the delay flags as they are
ClearDelayNone(delay, slots) == delay

\* sync_compute: delay[i] = false for every stream it visits
ClearDelay(delay, slots) ==
  [i \in DOMAIN delay |->
     IF \E k \in 1 .. Len(slots) : slots[k] = i THEN FALSE ELSE delay[i]]

\* number of calls that visit at least one stream
NonEmptyCalls(calls) ==
  Cardinality({k \in 1 .. Len(calls) : calls[k][2] > calls[k][1]})

\* sync_streams<ResetUsed>(f): queue finish uses ResetUsed = true
SyncStreams(reset) ==
  /\ opCount < MaxOps
  /\ UNCHANGED <<concVars, rcVars, objVars, delVars, evVars, mapVars, argVars,
                 poolVars>>
  /\ LET cEnd == SyncEnd(num_compute_streams_, compute_stream_idx_, NumComputeStreams)
         cCalls == SyncCalls(last_sync_compute_streams_, cEnd, NumComputeStreams)
         tEnd == SyncEnd(num_transfer_streams_, transfer_stream_idx_, NumTransferStreams)
         tCalls == IF NumTransferStreams > 0
                     THEN SyncCalls(last_sync_transfer_streams_, tEnd, NumTransferStreams)
                     ELSE <<>>
     IN  /\ last_sync_compute_streams_' =
              LastSyncAfter(reset, last_sync_compute_streams_, cEnd)
         /\ delay_compute_' = ClearDelay(delay_compute_, Visited(cCalls))
         /\ last_sync_transfer_streams_' =
              IF NumTransferStreams > 0
                THEN LastSyncAfter(reset, last_sync_transfer_streams_, tEnd)
                ELSE last_sync_transfer_streams_
         /\ lastOp' = [NoOp EXCEPT !.kind = "sync_streams", !.reset = reset,
                                   !.fn_compute = Visited(cCalls),
                                   !.fn_transfer = Visited(tCalls),
                                   !.n_ranges_compute = NonEmptyCalls(cCalls),
                                   !.n_ranges_transfer = NonEmptyCalls(tCalls)]
  /\ preSyncTokens' = IF reset THEN events ELSE preSyncTokens
  /\ opCount' = opCount + 1
  /\ UNCHANGED <<NumComputeStreams, NumTransferStreams,
                 compute_stream_idx_, transfer_stream_idx_, num_compute_streams_,
                 num_transfer_streams_, compute_applied_barrier_,
                 transfer_applied_barrier_, barrier_event_, events,
                 computeWaitGen, transferWaitGen, computeWaits, transferWaits,
                 computeWork, transferWork, reusedEver, nComputeCalls,
                 nTransferCalls>>

\* a barrier that leaves the barrier-applied flags as they are
BarrierResetKept(applied) == applied

\* the barrier-applied flags once a new barrier has been recorded
BarrierReset(applied) == [i \in DOMAIN applied |-> FALSE]

\* a barrier command: it takes a compute stream like any command, with an
\* empty wait list makes that stream wait for every stream in use
\* (sync_streams<false>), records barrier_event_ on it and marks every stream
\* of both pools as not having applied the barrier
EnqueueEventsWaitWithBarrier ==
  /\ opCount < MaxOps
  /\ UNCHANGED <<concVars, rcVars, objVars, delVars, evVars, mapVars, argVars,
                 poolVars>>
  /\ \E wait_list \in WaitLists \cup {<<>>} :
       LET sel == SelectCompute(wait_list)
           waited == NeedsBarrierWait(compute_applied_barrier_, sel.slot)
           cEnd == SyncEnd(sel.num, sel.idx, NumComputeStreams)
           cCalls == IF wait_list = <<>>
                       THEN SyncCalls(last_sync_compute_streams_, cEnd, NumComputeStreams)
                       ELSE <<>>
           tEnd == SyncEnd(num_transfer_streams_, transfer_stream_idx_, NumTransferStreams)
           tCalls == IF wait_list = <<>> /\ NumTransferStreams > 0
                       THEN SyncCalls(last_sync_transfer_streams_, tEnd, NumTransferStreams)
                       ELSE <<>>
       IN  /\ compute_stream_idx_' = sel.idx
           /\ num_compute_streams_' = sel.num
           /\ delay_compute_' = ClearDelay(sel.delay, Visited(cCalls))
           /\ computeWaitGen' = IF waited
                                  THEN [computeWaitGen EXCEPT ![sel.slot] = barrier_event_]
                                  ELSE computeWaitGen
           /\ events' = events \cup {sel.token}
           /\ reusedEver' = (reusedEver \/ sel.reused)
           /\ lastOp' = [NoOp EXCEPT !.kind = "barrier", !.pool = "compute",
                                     !.slot = sel.slot, !.token = sel.token,
                                     !.reused = sel.reused, !.waited = waited,
                                     !.wait_list = wait_list,
                                     !.fn_compute = Visited(cCalls),
                                     !.fn_transfer = Visited(tCalls),
                                     !.n_ranges_compute = NonEmptyCalls(cCalls),
                                     !.n_ranges_transfer = NonEmptyCalls(tCalls)]
  /\ barrier_event_' = barrier_event_ + 1
  /\ compute_applied_barrier_' = BarrierReset(compute_applied_barrier_)
  /\ transfer_applied_barrier_' = BarrierReset(transfer_applied_barrier_)
  /\ computeWaits' = [i \in ComputeSlots |-> 0]
  /\ transferWaits' = [i \in TransferSlots |-> 0]
  /\ computeWork' = [i \in ComputeSlots |-> 0]
  /\ transferWork' = [i \in TransferSlots |-> 0]
  /\ nComputeCalls' = nComputeCalls + 1
  /\ opCount' = opCount + 1
  /\ UNCHANGED <<NumComputeStreams, NumTransferStreams,
                 transfer_stream_idx_, num_transfer_streams_,
                 last_sync_compute_streams_, last_sync_transfer_streams_,
                 transferWaitGen, nTransferCalls, preSyncTokens>>

SyncStreamsReset == SyncStreams(TRUE)
SyncStreamsNoReset == SyncStreams(FALSE)

Next ==
  \/ GetNextComputeStream
  \/ GetNextComputeStreamDep
  \/ GetNextTransferStream
  \/ SyncStreamsReset
  \/ SyncStreamsNoReset
  \/ EnqueueEventsWaitWithBarrier

Spec == Init /\ [][Next]_vars

\* the queue after 2^w - m stream selections, every stream of the compute pool
\* created, and a sync_streams<true>: position and frontier are m below the
\* point where the 32-bit counters wrap
WrapQueueInit ==
  /\ NumComputeStreams \in 1 .. MaxComputeStreams
  /\ NumTransferStreams = MaxTransferStreams
  /\ \E m \in 1 .. MaxWrapMargin :
       /\ compute_stream_idx_ = UINT32 - m
       /\ last_sync_compute_streams_ = UINT32 - m
  /\ num_compute_streams_ = NumComputeStreams
  /\ transfer_stream_idx_ = 0
  /\ num_transfer_streams_ = 0
  /\ last_sync_transfer_streams_ = 0
  /\ delay_compute_ = [i \in ComputeSlots |-> FALSE]
  /\ compute_applied_barrier_ = [i \in ComputeSlots |-> FALSE]
  /\ transfer_applied_barrier_ = [i \in TransferSlots |-> FALSE]
  /\ barrier_event_ = 0

WrapSpecInit ==
  /\ WrapQueueInit /\ HistInit /\ ConcInit /\ RcInit /\ ObjInit /\ DelInit
  /\ EvInit /\ MapInit /\ ArgInit /\ PoolInit

WrapSpec == WrapSpecInit /\ [][Next]_vars

\* ------------------------------------- concurrent submitters (ConcSpec)

SetPc(t, label) == pc' = [pc EXCEPT ![t] = label]
Acquire(t, m) == mutex[m] = 0 /\ mutex' = [mutex EXCEPT ![m] = t]

ConcFrame == UNCHANGED <<NumComputeStreams, NumTransferStreams, barrier_event_,
                         histRest, rcVars, objVars, delVars, evVars,
                         mapVars, argVars, poolVars>>

\* a thread calls get_next_compute_stream(&stream_token)
StartGetNextComputeStream(t) ==
  /\ pc[t] = "idle" /\ concOps < MaxConcOps
  /\ concOps' = concOps + 1
  /\ tWaitList' = [tWaitList EXCEPT ![t] = <<>>]
  /\ SetPc(t, "gn_check")
  /\ ConcFrame
  /\ UNCHANGED <<compute_stream_idx_, transfer_stream_idx_, num_compute_streams_,
                 num_transfer_streams_, last_sync_compute_streams_,
                 last_sync_transfer_streams_, delay_compute_,
                 compute_applied_barrier_, transfer_applied_barrier_, events,
                 mutex, tIdx, tToken, tSlot, tGuard, tReset>>

\* a thread calls get_next_compute_stream(n, event_wait_list, guard, &token)
StartGetNextComputeStreamDep(t) ==
  /\ pc[t] = "idle" /\ concOps < MaxConcOps
  /\ concOps' = concOps + 1
  /\ \E wait_list \in WaitLists : tWaitList' = [tWaitList EXCEPT ![t] = wait_list]
  /\ tIdx' = [tIdx EXCEPT ![t] = 1]
  /\ SetPc(t, "dep_check")
  /\ ConcFrame
  /\ UNCHANGED <<compute_stream_idx_, transfer_stream_idx_, num_compute_streams_,
                 num_transfer_streams_, last_sync_compute_streams_,
                 last_sync_transfer_streams_, delay_compute_,
                 compute_applied_barrier_, transfer_applied_barrier_, events,
                 mutex, tToken, tSlot, tGuard, tReset>>

\* a thread calls sync_streams<ResetUsed>(f)
StartSyncStreams(t) ==
  /\ pc[t] = "idle" /\ concOps < MaxConcOps
  /\ concOps' = concOps + 1
  /\ \E reset \in BOOLEAN : tReset' = [tReset EXCEPT ![t] = reset]
  /\ SetPc(t, "ss_lock1")
  /\ ConcFrame
  /\ UNCHANGED <<compute_stream_idx_, transfer_stream_idx_, num_compute_streams_,
                 num_transfer_streams_, last_sync_compute_streams_,
                 last_sync_transfer_streams_, delay_compute_,
                 compute_applied_barrier_, transfer_applied_barrier_, events,
                 mutex, tWaitList, tIdx, tToken, tSlot, tGuard>>

\* the loop over the wait list: the unlocked can_reuse_stream(token) check;
\* at the end of the list guard = {} and the round-robin selection runs
DepCheck(t) ==
  /\ pc[t] = "dep_check"
  /\ IF tIdx[t] > Len(tWaitList[t])
       THEN SetPc(t, "gn_check") /\ UNCHANGED tIdx
       ELSE IF can_reuse_stream(tWaitList[t][tIdx[t]])
              THEN SetPc(t, "dep_lock") /\ UNCHANGED tIdx
              ELSE tIdx' = [tIdx EXCEPT ![t] = @ + 1] /\ UNCHANGED pc
  /\ ConcFrame
  /\ UNCHANGED <<compute_stream_idx_, transfer_stream_idx_, num_compute_streams_,
                 num_transfer_streams_, last_sync_compute_streams_,
                 last_sync_transfer_streams_, delay_compute_,
                 compute_applied_barrier_, transfer_applied_barrier_, events,
                 mutex, tWaitList, tToken, tSlot, tGuard, tReset, concOps>>

\* std::unique_lock compute_sync_guard(compute_stream_sync_mutex_)
DepLock(t) ==
  /\ pc[t] = "dep_lock"
  /\ Acquire(t, "compute_stream_sync_mutex_")
  /\ SetPc(t, "dep_recheck")
  /\ ConcFrame
  /\ UNCHANGED <<compute_stream_idx_, transfer_stream_idx_, num_compute_streams_,
                 num_transfer_streams_, last_sync_compute_streams_,
                 last_sync_transfer_streams_, delay_compute_,
                 compute_applied_barrier_, transfer_applied_barrier_, events,
                 tWaitList, tIdx, tToken, tSlot, tGuard, tReset, concOps>>

\* the lock dropped when the selection returns
GuardOwnerDropped(t) == 0

\* owner of compute_stream_sync_mutex_ when the selection returns a reused
\* stream: the lock is moved into the caller's guard and stays locked
GuardOwner(t) == t

\* the check is redone under the lock; on success the stream's delay flag is
\* set, the barrier wait is applied and the lock is handed to the caller; on
\* failure the lock is released and the loop goes on
DepRecheck(t) ==
  /\ pc[t] = "dep_recheck"
  /\ LET token == tWaitList[t][tIdx[t]]
         stream_i == SlotOf(token, NumComputeStreams)
     IN  IF can_reuse_stream(token)
           THEN /\ delay_compute_' = [delay_compute_ EXCEPT ![stream_i] = TRUE]
                /\ compute_applied_barrier_' =
                     AppliedAfter(compute_applied_barrier_, stream_i)
                /\ tToken' = [tToken EXCEPT ![t] = token]
                /\ tSlot' = [tSlot EXCEPT ![t] = stream_i]
                /\ tGuard' = [tGuard EXCEPT ![t] = TRUE]
                /\ mutex' = [mutex EXCEPT !["compute_stream_sync_mutex_"] = GuardOwner(t)]
                /\ SetPc(t, "issue")
                /\ UNCHANGED tIdx
           ELSE /\ mutex' = [mutex EXCEPT !["compute_stream_sync_mutex_"] = 0]
                /\ tIdx' = [tIdx EXCEPT ![t] = @ + 1]
                /\ SetPc(t, "dep_check")
                /\ UNCHANGED <<delay_compute_, compute_applied_barrier_, tToken,
                               tSlot, tGuard>>
  /\ ConcFrame
  /\ UNCHANGED <<compute_stream_idx_, transfer_stream_idx_, num_compute_streams_,
                 num_transfer_streams_, last_sync_compute_streams_,
                 last_sync_transfer_streams_, transfer_applied_barrier_, events,
                 tWaitList, tReset, concOps>>

\* round-robin selection: the unlocked check num_compute_streams_ < size
GnCheck(t) ==
  /\ pc[t] = "gn_check"
  /\ IF num_compute_streams_ < NumComputeStreams
       THEN SetPc(t, "gn_lock")
       ELSE SetPc(t, "gn_idx")
  /\ ConcFrame
  /\ UNCHANGED <<compute_stream_idx_, transfer_stream_idx_, num_compute_streams_,
                 num_transfer_streams_, last_sync_compute_streams_,
                 last_sync_transfer_streams_, delay_compute_,
                 compute_applied_barrier_, transfer_applied_barrier_, events,
                 mutex, tWaitList, tIdx, tToken, tSlot, tGuard, tReset, concOps>>

\* std::lock_guard guard(compute_stream_mutex_)
GnLock(t) ==
  /\ pc[t] = "gn_lock"
  /\ Acquire(t, "compute_stream_mutex_")
  /\ SetPc(t, "gn_create")
  /\ ConcFrame
  /\ UNCHANGED <<compute_stream_idx_, transfer_stream_idx_, num_compute_streams_,
                 num_transfer_streams_, last_sync_compute_streams_,
                 last_sync_transfer_streams_, delay_compute_,
                 compute_applied_barrier_, transfer_applied_barrier_, events,
                 tWaitList, tIdx, tToken, tSlot, tGuard, tReset, concOps>>

\* the check is redone under the lock, the next stream is created and the
\* lock released
GnCreate(t) ==
  /\ pc[t] = "gn_create"
  /\ num_compute_streams_' = IF num_compute_streams_ < NumComputeStreams
                               THEN num_compute_streams_ + 1
                               ELSE num_compute_streams_
  /\ mutex' = [mutex EXCEPT !["compute_stream_mutex_"] = 0]
  /\ SetPc(t, "gn_idx")
  /\ ConcFrame
  /\ UNCHANGED <<compute_stream_idx_, transfer_stream_idx_,
                 num_transfer_streams_, last_sync_compute_streams_,
                 last_sync_transfer_streams_, delay_compute_,
                 compute_applied_barrier_, transfer_applied_barrier_, events,
                 tWaitList, tIdx, tToken, tSlot, tGuard, tReset, concOps>>

\* token = compute_stream_idx_++ (atomic); a delayed slot is skipped once,
\* otherwise the barrier wait is applied and the stream returned
GnIdx(t) ==
  /\ pc[t] = "gn_idx"
  /\ compute_stream_idx_' = Inc32(compute_stream_idx_)
  /\ LET token == compute_stream_idx_
         stream_i == SlotOf(token, NumComputeStreams)
     IN  IF delay_compute_[stream_i]
           THEN /\ delay_compute_' = [delay_compute_ EXCEPT ![stream_i] = FALSE]
                /\ SetPc(t, "gn_check")
                /\ UNCHANGED <<compute_applied_barrier_, events, tToken, tSlot>>
           ELSE /\ compute_applied_barrier_' =
                     AppliedAfter(compute_applied_barrier_, stream_i)
                /\ events' = events \cup {token}
                /\ tToken' = [tToken EXCEPT ![t] = token]
                /\ tSlot' = [tSlot EXCEPT ![t] = stream_i]
                /\ SetPc(t, "issue")
                /\ UNCHANGED delay_compute_
  /\ ConcFrame
  /\ UNCHANGED <<transfer_stream_idx_, num_compute_streams_,
                 num_transfer_streams_, last_sync_compute_streams_,
                 last_sync_transfer_streams_, transfer_applied_barrier_,
                 mutex, tWaitList, tIdx, tGuard, tReset, concOps>>

\* the caller issues its work to the stream; then its guard goes out of
\* scope and unlocks what it owns (the call's locals are dead afterwards)
Issue(t) ==
  /\ pc[t] = "issue"
  /\ mutex' = IF tGuard[t] /\ mutex["compute_stream_sync_mutex_"] = t
                THEN [mutex EXCEPT !["compute_stream_sync_mutex_"] = 0]
                ELSE mutex
  /\ tGuard' = [tGuard EXCEPT ![t] = FALSE]
  /\ tWaitList' = [tWaitList EXCEPT ![t] = <<>>]
  /\ tIdx' = [tIdx EXCEPT ![t] = 1]
  /\ tToken' = [tToken EXCEPT ![t] = Sentinel]
  /\ tSlot' = [tSlot EXCEPT ![t] = 0]
  /\ SetPc(t, "idle")
  /\ ConcFrame
  /\ UNCHANGED <<compute_stream_idx_, transfer_stream_idx_, num_compute_streams_,
                 num_transfer_streams_, last_sync_compute_streams_,
                 last_sync_transfer_streams_, delay_compute_,
                 compute_applied_barrier_, transfer_applied_barrier_, events,
                 tReset, concOps>>

\* the two lock_guard declarations swapped
SyncStreamsLockOrderSwapped == <<"compute_stream_mutex_", "compute_stream_sync_mutex_">>

\* sync_streams: the two mutexes its compute block locks, in the order of
\* the two std::lock_guard declarations
SyncStreamsLockOrder == <<"compute_stream_sync_mutex_", "compute_stream_mutex_">>

SsLock1(t) ==
  /\ pc[t] = "ss_lock1"
  /\ Acquire(t, SyncStreamsLockOrder[1])
  /\ SetPc(t, "ss_lock2")
  /\ ConcFrame
  /\ UNCHANGED <<compute_stream_idx_, transfer_stream_idx_, num_compute_streams_,
                 num_transfer_streams_, last_sync_compute_streams_,
                 last_sync_transfer_streams_, delay_compute_,
                 compute_applied_barrier_, transfer_applied_barrier_, events,
                 tWaitList, tIdx, tToken, tSlot, tGuard, tReset, concOps>>

SsLock2(t) ==
  /\ pc[t] = "ss_lock2"
  /\ Acquire(t, SyncStreamsLockOrder[2])
  /\ SetPc(t, "ss_compute")
  /\ ConcFrame
  /\ UNCHANGED <<compute_stream_idx_, transfer_stream_idx_, num_compute_streams_,
                 num_transfer_streams_, last_sync_compute_streams_,
                 last_sync_transfer_streams_, delay_compute_,
                 compute_applied_barrier_, transfer_applied_barrier_, events,
                 tWaitList, tIdx, tToken, tSlot, tGuard, tReset, concOps>>

\* the compute block under both locks; both are released at its end
SsCompute(t) ==
  /\ pc[t] = "ss_compute"
  /\ LET cEnd == SyncEnd(num_compute_streams_, compute_stream_idx_, NumComputeStreams)
         cCalls == SyncCalls(last_sync_compute_streams_, cEnd, NumComputeStreams)
     IN  /\ last_sync_compute_streams_' =
              LastSyncAfter(tReset[t], last_sync_compute_streams_, cEnd)
         /\ delay_compute_' = ClearDelay(delay_compute_, Visited(cCalls))
  /\ mutex' = [mutex EXCEPT !["compute_stream_sync_mutex_"] = 0,
                            !["compute_stream_mutex_"] = 0]
  /\ IF NumTransferStreams > 0
       THEN SetPc(t, "ss_lock_transfer")
       ELSE SetPc(t, "idle")
  /\ ConcFrame
  /\ UNCHANGED <<compute_stream_idx_, transfer_stream_idx_, num_compute_streams_,
                 num_transfer_streams_, last_sync_transfer_streams_,
                 compute_applied_barrier_, transfer_applied_barrier_, events,
                 tWaitList, tIdx, tToken, tSlot, tGuard, tReset, concOps>>

\* std::lock_guard transfer_guard(transfer_stream_mutex_)
SsLockTransfer(t) ==
  /\ pc[t] = "ss_lock_transfer"
  /\ Acquire(t, "transfer_stream_mutex_")
  /\ SetPc(t, "ss_transfer")
  /\ ConcFrame
  /\ UNCHANGED <<compute_stream_idx_, transfer_stream_idx_, num_compute_streams_,
                 num_transfer_streams_, last_sync_compute_streams_,
                 last_sync_transfer_streams_, delay_compute_,
                 compute_applied_barrier_, transfer_applied_barrier_, events,
                 tWaitList, tIdx, tToken, tSlot, tGuard, tReset, concOps>>

\* the transfer block under its lock
SsTransfer(t) ==
  /\ pc[t] = "ss_transfer"
  /\ LET tEnd == SyncEnd(num_transfer_streams_, transfer_stream_idx_, NumTransferStreams)
     IN  last_sync_transfer_streams_' =
           LastSyncAfter(tReset[t], last_sync_transfer_streams_, tEnd)
  /\ mutex' = [mutex EXCEPT !["transfer_stream_mutex_"] = 0]
  /\ tReset' = [tReset EXCEPT ![t] = FALSE]
  /\ SetPc(t, "idle")
  /\ ConcFrame
  /\ UNCHANGED <<compute_stream_idx_, transfer_stream_idx_, num_compute_streams_,
                 num_transfer_streams_, last_sync_compute_streams_,
                 delay_compute_, compute_applied_barrier_,
                 transfer_applied_barrier_, events,
                 tWaitList, tIdx, tToken, tSlot, tGuard, concOps>>

ConcNext ==
  \/ \E t \in Threads : StartGetNextComputeStream(t)
  \/ \E t \in Threads : StartGetNextComputeStreamDep(t)
  \/ \E t \in Threads : StartSyncStreams(t)
  \/ \E t \in Threads : DepCheck(t)
  \/ \E t \in Threads : DepLock(t)
  \/ \E t \in Threads : DepRecheck(t)
  \/ \E t \in Threads : GnCheck(t)
  \/ \E t \in Threads : GnLock(t)
  \/ \E t \in Threads : GnCreate(t)
  \/ \E t \in Threads : GnIdx(t)
  \/ \E t \in Threads : Issue(t)
  \/ \E t \in Threads : SsLock1(t)
  \/ \E t \in Threads : SsLock2(t)
  \/ \E t \in Threads : SsCompute(t)
  \/ \E t \in Threads : SsLockTransfer(t)
  \/ \E t \in Threads : SsTransfer(t)

\* the queue after k commands without dependencies were submitted one after
\* the other: k round-robin selections from the constructed queue
ConcQueueInit ==
  /\ NumComputeStreams \in 1 .. MaxComputeStreams
  /\ NumTransferStreams = MaxTransferStreams
  /\ \E k \in 0 .. MaxPriorCommands :
       /\ compute_stream_idx_ = k
       /\ num_compute_streams_ = IF k < NumComputeStreams THEN k ELSE NumComputeStreams
       /\ events = 0 .. (k - 1)
  /\ transfer_stream_idx_ = 0
  /\ num_transfer_streams_ = 0
  /\ last_sync_compute_streams_ = 0
  /\ last_sync_transfer_streams_ = 0
  /\ delay_compute_ = [i \in ComputeSlots |-> FALSE]
  /\ compute_applied_barrier_ = [i \in ComputeSlots |-> FALSE]
  /\ transfer_applied_barrier_ = [i \in TransferSlots |-> FALSE]
  /\ barrier_event_ = 0

ConcSpecInit ==
  /\ ConcQueueInit
  /\ opCount = 0
  /\ lastOp = NoOp
  /\ computeWaitGen = [i \in ComputeSlots |-> 0]
  /\ transferWaitGen = [i \in TransferSlots |-> 0]
  /\ computeWaits = [i \in ComputeSlots |-> 0]
  /\ transferWaits = [i \in TransferSlots |-> 0]
  /\ computeWork = [i \in ComputeSlots |-> 0]
  /\ transferWork = [i \in TransferSlots |-> 0]
  /\ reusedEver = FALSE
  /\ nComputeCalls = 0
  /\ nTransferCalls = 0
  /\ preSyncTokens = {}
  /\ ConcInit
  /\ RcInit
  /\ ObjInit
  /\ DelInit
  /\ EvInit
  /\ MapInit
  /\ ArgInit
  /\ PoolInit

ConcSpec == ConcSpecInit /\ [][ConcNext]_vars

\* ------------------------------------------- reference counting (RcSpec)

\* the counter operations are single atomic read-modify-writes; each gives
\* the counter afterwards and the value returned
\* return refCount_++ : the count before the increment
increment_reference_count_post(count) ==
  [count |-> Inc32(count), ret |-> count]

\* return refCount_ + 1 : the counter is left as it was
increment_reference_count_unstored(count) ==
  [count |-> count, ret |-> Inc32(count)]

\* increment_reference_count: return ++refCount_
increment_reference_count(count) ==
  [count |-> Inc32(count), ret |-> Inc32(count)]

\* return refCount_-- : the count before the decrement
decrement_reference_count_post(count) ==
  [count |-> Sub32(count, 1), ret |-> count]

\* decrement_reference_count: return --refCount_
decrement_reference_count(count) ==
  [count |-> Sub32(count, 1), ret |-> Sub32(count, 1)]

RcFrame == UNCHANGED <<queueVars, histVars, concVars, objVars, delVars, evVars,
                        mapVars, argVars, poolVars>>

\* thread t, owning a reference, retains the object; the new reference is
\* handed to thread u
Retain(t, u) ==
  /\ rcPc[t] = "idle"
  /\ held[t] >= 1
  /\ refCount_ < MaxRefs
  /\ LET r == increment_reference_count(refCount_)
     IN  /\ refCount_' = r.count
         /\ rcRet' = [rcRet EXCEPT ![t] = r.ret]
  /\ held' = [held EXCEPT ![u] = @ + 1]
  /\ UNCHANGED <<rcPc, destroyedBy, zeroedBy>>
  /\ RcFrame

\* thread t gives up a reference it owns
Release(t) ==
  /\ rcPc[t] = "idle"
  /\ held[t] >= 1
  /\ LET r == decrement_reference_count(refCount_)
     IN  /\ refCount_' = r.count
         /\ rcRet' = [rcRet EXCEPT ![t] = r.ret]
  /\ held' = [held EXCEPT ![t] = @ - 1]
  /\ zeroedBy' = IF refCount_ = 1 THEN t ELSE zeroedBy
  /\ rcPc' = [rcPc EXCEPT ![t] = "released"]
  /\ UNCHANGED destroyedBy
  /\ RcFrame

\* the release call acts on the count it got back: 0 destroys the object,
\* synchronously, on this thread
FinishRelease(t) ==
  /\ rcPc[t] = "released"
  /\ destroyedBy' = IF rcRet[t] = 0 THEN Append(destroyedBy, t) ELSE destroyedBy
  /\ rcPc' = [rcPc EXCEPT ![t] = "idle"]
  /\ UNCHANGED <<refCount_, held, rcRet, zeroedBy>>
  /\ RcFrame

RcNext ==
  \/ \E t, u \in RcThreads : Retain(t, u)
  \/ \E t \in RcThreads : Release(t)
  \/ \E t \in RcThreads : FinishRelease(t)

\* the object's users next to one queue of the largest pools
RcSpecInit ==
  /\ Init
  /\ NumComputeStreams = MaxComputeStreams
  /\ NumTransferStreams = MaxTransferStreams

RcSpec == RcSpecInit /\ [][RcNext]_vars

\* a caller without a reference releases once more, after the decrement
\* that took the counter to 0 and before that caller's delete has run:
\* decrement_reference_count has no test of the counter
StaleRelease(t) ==
  /\ rcPc[t] = "idle"
  /\ held[t] = 0
  /\ refCount_ = 0
  /\ destroyedBy = <<>>
  /\ LET r == decrement_reference_count(refCount_)
     IN  /\ refCount_' = r.count
         /\ rcRet' = [rcRet EXCEPT ![t] = r.ret]
  /\ rcPc' = [rcPc EXCEPT ![t] = "released"]
  /\ UNCHANGED <<held, destroyedBy, zeroedBy>>
  /\ RcFrame

\* the same with a retain: increment_reference_count has no test either
StaleRetain(t) ==
  /\ rcPc[t] = "idle"
  /\ held[t] = 0
  /\ refCount_ = 0
  /\ destroyedBy = <<>>
  /\ LET r == increment_reference_count(refCount_)
     IN  /\ refCount_' = r.count
         /\ rcRet' = [rcRet EXCEPT ![t] = r.ret]
  /\ UNCHANGED <<held, rcPc, destroyedBy, zeroedBy>>
  /\ RcFrame

RcMisuseNext ==
  \/ \E t, u \in RcThreads : Retain(t, u)
  \/ \E t \in RcThreads : Release(t)
  \/ \E t \in RcThreads : FinishRelease(t)
  \/ \E t \in RcThreads : StaleRelease(t)
  \/ \E t \in RcThreads : StaleRetain(t)

\* RcSpec with callers that break the contract of 4.1
RcMisuseSpec == RcSpecInit /\ [][RcMisuseNext]_vars


\* ------------------------------- _pi_context destruction callbacks (DelSpec)

DelThreads == 1 .. NumDelThreads

DelFrame == UNCHANGED <<queueVars, histVars, concVars, objVars, evVars,
                         mapVars, argVars, poolVars>>

SetRcPc(t, label) == rcPc' = [rcPc EXCEPT ![t] = label]

\* extended_deleters_.emplace(extended_deleters_.begin(), ...)
EmplaceFront(deleters, d) == <<d>> \o deleters

\* extended_deleters_.emplace_back(deleter_data{function, user_data})
EmplaceBack(deleters, d) == Append(deleters, d)

\* a thread that owns a reference calls set_extended_deleter with a callback
\* not registered before
SetDeleterCall(t) ==
  /\ rcPc[t] = "idle"
  /\ held[t] >= 1
  /\ Len(registered) + Cardinality({u \in RcThreads : delCb[u] # 0}) < MaxDeleters
  /\ delCb' = [delCb EXCEPT ![t] =
                 1 + Len(registered) + Cardinality({u \in RcThreads : delCb[u] # 0})]
  /\ SetRcPc(t, "set_lock")
  /\ UNCHANGED <<refCount_, held, rcRet, destroyedBy, zeroedBy,
                 extended_deleters_, mutex_, registered, invoked, delIt>>
  /\ DelFrame

\* set_extended_deleter: std::lock_guard<std::mutex> guard(mutex_)
SetDeleterLock(t) ==
  /\ rcPc[t] = "set_lock"
  /\ mutex_ = 0
  /\ mutex_' = t
  /\ SetRcPc(t, "set_emplace")
  /\ UNCHANGED <<refCount_, held, rcRet, destroyedBy, zeroedBy,
                 extended_deleters_, registered, invoked, delCb, delIt>>
  /\ DelFrame

\* set_extended_deleter: emplace_back, then the guard's destructor unlocks
SetDeleterEmplace(t) ==
  /\ rcPc[t] = "set_emplace"
  /\ extended_deleters_' = EmplaceBack(extended_deleters_, delCb[t])
  /\ registered' = Append(registered, delCb[t])
  /\ delCb' = [delCb EXCEPT ![t] = 0]
  /\ mutex_' = 0
  /\ SetRcPc(t, "idle")
  /\ UNCHANGED <<refCount_, held, rcRet, destroyedBy, zeroedBy, invoked, delIt>>
  /\ DelFrame

\* the release that got a count above 0 back returns
ReleaseReturn(t) ==
  /\ rcPc[t] = "released"
  /\ rcRet[t] # 0
  /\ SetRcPc(t, "idle")
  /\ UNCHANGED <<refCount_, held, rcRet, destroyedBy, zeroedBy>>
  /\ UNCHANGED delVars
  /\ DelFrame

\* the release that got 0 back tears the context down: it calls
\* invoke_extended_deleters
Teardown(t) ==
  /\ rcPc[t] = "released"
  /\ rcRet[t] = 0
  /\ SetRcPc(t, "invoke_lock")
  /\ UNCHANGED <<refCount_, held, rcRet, destroyedBy, zeroedBy>>
  /\ UNCHANGED delVars
  /\ DelFrame

\* invoke_extended_deleters: std::lock_guard<std::mutex> guard(mutex_)
InvokeLock(t) ==
  /\ rcPc[t] = "invoke_lock"
  /\ mutex_ = 0
  /\ mutex_' = t
  /\ delIt' = [delIt EXCEPT ![t] = 1]
  /\ SetRcPc(t, "invoke_loop")
  /\ UNCHANGED <<refCount_, held, rcRet, destroyedBy, zeroedBy,
                 extended_deleters_, registered, invoked, delCb>>
  /\ DelFrame

\* invoke_extended_deleters: one turn of for (auto &deleter : ...) deleter();
InvokeDeleter(t) ==
  /\ rcPc[t] = "invoke_loop"
  /\ delIt[t] <= Len(extended_deleters_)
  /\ invoked' = Append(invoked, extended_deleters_[delIt[t]])
  /\ delIt' = [delIt EXCEPT ![t] = @ + 1]
  /\ UNCHANGED <<refCount_, held, rcPc, rcRet, destroyedBy, zeroedBy,
                 extended_deleters_, mutex_, registered, delCb>>
  /\ DelFrame

\* invoke_extended_deleters: the loop is over, the guard's destructor unlocks
InvokeUnlock(t) ==
  /\ rcPc[t] = "invoke_loop"
  /\ delIt[t] > Len(extended_deleters_)
  /\ mutex_' = 0
  /\ delIt' = [delIt EXCEPT ![t] = 0]
  /\ SetRcPc(t, "delete")
  /\ UNCHANGED <<refCount_, held, rcRet, destroyedBy, zeroedBy,
                 extended_deleters_, registered, invoked, delCb>>
  /\ DelFrame

\* the context is deleted
DeleteContext(t) ==
  /\ rcPc[t] = "delete"
  /\ destroyedBy' = Append(destroyedBy, t)
  /\ SetRcPc(t, "idle")
  /\ UNCHANGED <<refCount_, held, rcRet, zeroedBy>>
  /\ UNCHANGED delVars
  /\ DelFrame

DelNext ==
  \/ \E t, u \in DelThreads : Retain(t, u)
  \/ \E t \in DelThreads : Release(t)
  \/ \E t \in DelThreads : SetDeleterCall(t)
  \/ \E t \in DelThreads : SetDeleterLock(t)
  \/ \E t \in DelThreads : SetDeleterEmplace(t)
  \/ \E t \in DelThreads : ReleaseReturn(t)
  \/ \E t \in DelThreads : Teardown(t)
  \/ \E t \in DelThreads : InvokeLock(t)
  \/ \E t \in DelThreads : InvokeDeleter(t)
  \/ \E t \in DelThreads : InvokeUnlock(t)
  \/ \E t \in DelThreads : DeleteContext(t)

DelSpec == RcSpecInit /\ [][DelNext]_vars

\* ------------------------------------------------------ _pi_event (EvSpec)

EvFrame == UNCHANGED <<queueVars, histVars, concVars, rcVars, objVars, delVars,
                        mapVars, argVars, poolVars>>

is_recorded(e) == isRecorded_[e]

\* _pi_event::is_completed: false while not recorded; true once wait() has
\* returned on the event; else what polling the driver says
is_completed(e) ==
  /\ isRecorded_[e]
  /\ (hasBeenWaitedOn_[e] \/ evDone[e])

\* get_execution_status without its first test
get_execution_status_unrecorded(e) ==
  IF ~is_completed(e) THEN "PI_EVENT_RUNNING" ELSE "PI_EVENT_COMPLETE"

\* get_execution_status with the second test inverted
get_execution_status_inverted(e) ==
  IF ~is_recorded(e)
    THEN "PI_EVENT_SUBMITTED"
    ELSE IF is_completed(e) THEN "PI_EVENT_RUNNING" ELSE "PI_EVENT_COMPLETE"

\* _pi_event::get_execution_status
get_execution_status(e) ==
  IF ~is_recorded(e)
    THEN "PI_EVENT_SUBMITTED"
    ELSE IF ~is_completed(e) THEN "PI_EVENT_RUNNING" ELSE "PI_EVENT_COMPLETE"

\* _pi_event::start: the start timing point is taken
EvStart(e) ==
  /\ ~isStarted_[e]
  /\ isStarted_' = [isStarted_ EXCEPT ![e] = TRUE]
  /\ UNCHANGED <<isRecorded_, hasBeenWaitedOn_, evDone, evWaiting, evSeen,
                 waitReturned>>
  /\ EvFrame

\* _pi_event::record: the end timing point is put on the stream behind the
\* command, and the event is recorded from now on
EvRecord(e) ==
  /\ isStarted_[e]
  /\ ~isRecorded_[e]
  /\ isRecorded_' = [isRecorded_ EXCEPT ![e] = TRUE]
  /\ UNCHANGED <<isStarted_, hasBeenWaitedOn_, evDone, evWaiting, evSeen,
                 waitReturned>>
  /\ EvFrame

\* the device gets to the end timing point: the command has completed
DriverCompletes(e) ==
  /\ isRecorded_[e]
  /\ ~evDone[e]
  /\ evDone' = [evDone EXCEPT ![e] = TRUE]
  /\ UNCHANGED <<isStarted_, isRecorded_, hasBeenWaitedOn_, evWaiting, evSeen,
                 waitReturned>>
  /\ EvFrame

\* a thread calls wait() and blocks in the driver
EvWaitCall(t, e) ==
  /\ evWaiting[t] = 0
  /\ evWaiting' = [evWaiting EXCEPT ![t] = e]
  /\ UNCHANGED <<isStarted_, isRecorded_, hasBeenWaitedOn_, evDone, evSeen,
                 waitReturned>>
  /\ EvFrame

\* the driver lets a waiting thread go at once
WaitUnblockedAlways(e) == TRUE

\* the driver lets a thread waiting for e go once e's command has completed
WaitUnblocked(e) == evDone[e]

\* wait() returns: hasBeenWaitedOn_ = true
EvWaitReturn(t) ==
  /\ evWaiting[t] # 0
  /\ WaitUnblocked(evWaiting[t])
  /\ hasBeenWaitedOn_' = [hasBeenWaitedOn_ EXCEPT ![evWaiting[t]] = TRUE]
  /\ waitReturned' = [waitReturned EXCEPT ![evWaiting[t]] = TRUE]
  /\ evWaiting' = [evWaiting EXCEPT ![t] = 0]
  /\ UNCHANGED <<isStarted_, isRecorded_, evDone, evSeen>>
  /\ EvFrame

\* a caller asks for the status of e
EvGetExecutionStatus(e) ==
  /\ evSeen[e] # get_execution_status(e)
  /\ evSeen' = [evSeen EXCEPT ![e] = get_execution_status(e)]
  /\ UNCHANGED <<isStarted_, isRecorded_, hasBeenWaitedOn_, evDone, evWaiting,
                 waitReturned>>
  /\ EvFrame

EvNext ==
  \/ \E e \in EventIds : EvStart(e)
  \/ \E e \in EventIds : EvRecord(e)
  \/ \E e \in EventIds : DriverCompletes(e)
  \/ \E t \in Waiters, e \in EventIds : EvWaitCall(t, e)
  \/ \E t \in Waiters : EvWaitReturn(t)
  \/ \E e \in EventIds : EvGetExecutionStatus(e)

EvSpec == RcSpecInit /\ [][EvNext]_vars

\* --------------------------------------------- the object graph (ObjSpec)

Handles(os) == 1 .. Len(os)

\* _pi_mem::is_sub_buffer
is_sub_buffer(o) == o.kind = "buffer" /\ o.parent_ # 0

\* the queue constructor without its hip_piContextRetain
CtorRetainsQueueDeviceOnly(o) ==
  CASE o.kind = "context" -> <<o.device_>>
    [] o.kind = "buffer"  -> IF is_sub_buffer(o) THEN <<o.parent_>>
                                                 ELSE <<o.context_>>
    [] o.kind = "image"   -> <<o.context_>>
    [] o.kind = "queue"   -> <<o.device_>>
    [] o.kind = "kernel"  -> <<o.program_, o.context_>>
    [] OTHER              -> <<>>

\* the buffer constructor without its is_sub_buffer() test
CtorRetainsContextAlways(o) ==
  CASE o.kind = "context" -> <<o.device_>>
    [] o.kind = "buffer"  -> <<o.context_>>
    [] o.kind = "image"   -> <<o.context_>>
    [] o.kind = "queue"   -> <<o.context_, o.device_>>
    [] o.kind = "kernel"  -> <<o.program_, o.context_>>
    [] OTHER              -> <<>>

\* the retain calls in the body of o's constructor, in order
CtorRetains(o) ==
  CASE o.kind = "context" -> <<o.device_>>
    [] o.kind = "buffer"  -> IF is_sub_buffer(o) THEN <<o.parent_>>
                                                 ELSE <<o.context_>>
    [] o.kind = "image"   -> <<o.context_>>
    [] o.kind = "queue"   -> <<o.context_, o.device_>>
    [] o.kind = "kernel"  -> <<o.program_, o.context_>>
    [] OTHER              -> <<>>

\* ~_pi_mem without the early return of the sub-buffer branch
DtorReleasesFallThrough(o) ==
  CASE o.kind = "context" -> <<o.device_>>
    [] o.kind = "buffer"  -> IF is_sub_buffer(o) THEN <<o.parent_, o.context_>>
                                                 ELSE <<o.context_>>
    [] o.kind = "image"   -> <<o.context_>>
    [] o.kind = "queue"   -> <<o.context_, o.device_>>
    [] o.kind = "kernel"  -> <<o.program_, o.context_>>
    [] OTHER              -> <<>>

\* the release calls in the body of o's destructor, in order
DtorReleases(o) ==
  CASE o.kind = "context" -> <<o.device_>>
    [] o.kind = "buffer"  -> IF is_sub_buffer(o) THEN <<o.parent_>>
                                                 ELSE <<o.context_>>
    [] o.kind = "image"   -> <<o.context_>>
    [] o.kind = "queue"   -> <<o.context_, o.device_>>
    [] o.kind = "kernel"  -> <<o.program_, o.context_>>
    [] OTHER              -> <<>>

\* _pi_device has get_reference_count() only: refCount_ is private and no
\* member changes it, so no retain or release entry point can
Counted(o) == o.kind # "device"

\* hip_pi*Retain(h): the object's increment_reference_count
RetainObj(os, h) ==
  IF Counted(os[h])
    THEN [os EXCEPT ![h].refCount_ = increment_reference_count(@).count]
    ELSE os

RECURSIVE ReleaseAll(_, _)
RECURSIVE ReleaseObj(_, _)

\* hip_pi*Release(h): decrement_reference_count; the call that gets 0 back
\* deletes the object, whose destructor releases what it holds
ReleaseObj(os, h) ==
  IF ~Counted(os[h])
    THEN os
    ELSE LET r == decrement_reference_count(os[h].refCount_)
             os1 == [os EXCEPT ![h].refCount_ = r.count]
         IN  IF r.ret = 0
               THEN ReleaseAll([os1 EXCEPT ![h].live = FALSE], DtorReleases(os[h]))
               ELSE os1

ReleaseAll(os, hs) ==
  IF hs = <<>> THEN os ELSE ReleaseAll(ReleaseObj(os, Head(hs)), Tail(hs))

RECURSIVE RetainAll(_, _)
RetainAll(os, hs) ==
  IF hs = <<>> THEN os ELSE RetainAll(RetainObj(os, Head(hs)), Tail(hs))

Counts(os) == [h \in Handles(os) |-> os[h].refCount_]

Call(op, h, ret) ==
  LET follows == op = "release" /\ objLast.obj = h
                   /\ objLast.op \in {"create", "retain"}
  IN  [op |-> op, obj |-> h, ret |-> ret,
       was |-> IF op = "create" THEN 0 ELSE objs[h].refCount_,
       before |-> IF op = "create" THEN Counts(objs) ELSE <<>>,
       prevOp |-> IF follows THEN objLast.op ELSE "none",
       prevWas |-> IF follows THEN objLast.was ELSE 0,
       prevBefore |-> IF follows THEN objLast.before ELSE <<>>]

ObjFrame == UNCHANGED <<queueVars, histVars, concVars, rcVars, delVars, evVars,
                         mapVars, argVars, poolVars>>

\* a factory call: the object is constructed (its constructor retains what
\* it holds) and its handle is returned to the caller
Create(o) ==
  /\ Len(objs) < 1 + MaxObjects
  /\ \A k \in 1 .. Len(CtorRetains(o)) :
        /\ objs[CtorRetains(o)[k]].live
        /\ objs[CtorRetains(o)[k]].refCount_ < MaxObjRefs
  /\ objs' = RetainAll(Append(objs, o), CtorRetains(o))
  /\ objLast' = Call("create", Len(objs) + 1, 0)
  /\ ObjFrame

LiveOf(kind) == {h \in Handles(objs) : objs[h].kind = kind /\ objs[h].live}

CreateContext ==
  \E d \in LiveOf("device") : Create(NewObj("context", 0, d, 0, 0))

CreateBuffer ==
  \E c \in LiveOf("context") : Create(NewObj("buffer", c, 0, 0, 0))

\* a view on a live buffer, in the buffer's context
CreateSubBuffer ==
  \E b \in LiveOf("buffer") :
    Create(NewObj("buffer", objs[b].context_, 0, b, 0))

CreateImage ==
  \E c \in LiveOf("context") : Create(NewObj("image", c, 0, 0, 0))

CreateQueue ==
  \E c \in LiveOf("context") :
    Create(NewObj("queue", c, objs[c].device_, 0, 0))

CreateProgram ==
  \E c \in LiveOf("context") : Create(NewObj("program", c, 0, 0, 0))

CreateKernel ==
  \E p \in LiveOf("program") :
    Create(NewObj("kernel", objs[p].context_, 0, 0, p))

CreateSampler ==
  \E c \in LiveOf("context") : Create(NewObj("sampler", c, 0, 0, 0))

\* a caller retains a live object and owns one more reference
ObjRetain(h) ==
  /\ objs[h].live
  /\ Counted(objs[h])
  /\ objs[h].refCount_ < MaxObjRefs
  /\ LET r == increment_reference_count(objs[h].refCount_)
     IN  /\ objs' = [objs EXCEPT ![h].refCount_ = r.count, ![h].ext = @ + 1]
         /\ objLast' = Call("retain", h, r.ret)
  /\ ObjFrame

\* a caller gives up a reference it owns
ObjRelease(h) ==
  /\ objs[h].live
  /\ Counted(objs[h])
  /\ objs[h].ext >= 1
  /\ objs' = ReleaseObj([objs EXCEPT ![h].ext = @ - 1], h)
  /\ objLast' = Call("release", h,
                     decrement_reference_count(objs[h].refCount_).ret)
  /\ ObjFrame

ObjNext ==
  \/ CreateContext
  \/ CreateBuffer
  \/ CreateSubBuffer
  \/ CreateImage
  \/ CreateQueue
  \/ CreateProgram
  \/ CreateKernel
  \/ CreateSampler
  \/ \E h \in Handles(objs) : ObjRetain(h)
  \/ \E h \in Handles(objs) : ObjRelease(h)

ObjSpecInit ==
  /\ Init
  /\ NumComputeStreams = MaxComputeStreams
  /\ NumTransferStreams = MaxTransferStreams

ObjSpec == ObjSpecInit /\ [][ObjNext]_vars

\* ------------------------------------------------ buffer mapping (MapSpec)

MapFrame == UNCHANGED <<queueVars, histVars, concVars, rcVars, objVars, delVars,
                        evVars, argVars, poolVars>>

\* assert(mapPtr_ == nullptr) of map_to_ptr
map_to_ptr_assert_open(mapPtr) == TRUE
map_to_ptr_assert(mapPtr) == mapPtr = NullPtr

\* assert(mapPtr_ != nullptr) of unmap and of get_map_flags
is_mapped_assert(mapPtr) == mapPtr # NullPtr

\* the pointer map_to_ptr stores in mapPtr_ and returns: into the host memory
\* at the offset when the buffer has a host pointer, else the block of malloc
map_to_ptr(hostPtr, offset, block) ==
  IF hostPtr # NullPtr THEN PtrAdd(hostPtr, offset) ELSE block

\* the test of unmap that decides whether it calls free(mapPtr_)
unmap_frees(mapPtr, hostPtr) == mapPtr # hostPtr

\* what unmap leaves in mapPtr_ and mapOffset_
unmap_reset_stale(offset) == <<NullPtr, offset>>
unmap_reset(offset) == <<NullPtr, 0>>

\* the pointer is the start of a live block of malloc
IsBlock(p) == \E b \in mapHeap : BlockPtr(b.block) = p

MapCall(op, accepted, offset, flags, ret, allocated, freed) ==
  [op |-> op, accepted |-> accepted, offset |-> offset, flags |-> flags,
   was |-> mapPtr_, ret |-> ret, allocated |-> allocated, freed |-> freed,
   prevOp |-> mapLast.op]

MapCallable == mapMade /\ mapHalt = "no" /\ mapCalls < MaxMapCalls

\* _pi_mem::_pi_mem (buffer): the fields of buffer_mem_ after construction
NewBuffer(host_ptr, size) ==
  /\ ~mapMade
  /\ mapMade' = TRUE
  /\ hostPtr_' = host_ptr
  /\ size_' = size
  /\ mapOffset_' = 0
  /\ mapPtr_' = NullPtr
  /\ mapFlags_' = "PI_MAP_WRITE"
  /\ mapLast' = MapCall("create", TRUE, 0, "PI_MAP_WRITE", NullPtr, {}, <<>>)
  /\ UNCHANGED <<mapHeap, mapAllocs, mapCalls, mapHalt>>
  /\ MapFrame

\* buffer_mem_::map_to_ptr(offset, flags)
MapToPtr(offset, flags) ==
  /\ MapCallable
  /\ mapCalls' = mapCalls + 1
  /\ IF ~map_to_ptr_assert(mapPtr_)
     THEN /\ mapHalt' = "assertion failed"
          /\ mapLast' = MapCall("map_to_ptr", FALSE, offset, flags, NullPtr, {}, <<>>)
          /\ UNCHANGED <<mapOffset_, mapPtr_, mapFlags_, mapHeap, mapAllocs>>
     ELSE LET allocates == hostPtr_ = NullPtr
              made == IF allocates
                      THEN {[block |-> mapAllocs + 1, size |-> size_]}
                      ELSE {}
              ptr == map_to_ptr(hostPtr_, offset, BlockPtr(mapAllocs + 1))
          IN /\ mapOffset_' = offset
             /\ mapFlags_' = flags
             /\ mapPtr_' = ptr
             /\ mapHeap' = mapHeap \cup made
             /\ mapAllocs' = mapAllocs + Cardinality(made)
             /\ mapLast' = MapCall("map_to_ptr", TRUE, offset, flags, ptr, made, <<>>)
             /\ UNCHANGED mapHalt
  /\ UNCHANGED <<hostPtr_, size_, mapMade>>
  /\ MapFrame

\* buffer_mem_::unmap(ptr). free() of a pointer that malloc did not return is
\* undefined: the allocator either aborts the process or carries on.
Unmap ==
  /\ MapCallable
  /\ mapCalls' = mapCalls + 1
  /\ LET reset == /\ mapPtr_' = unmap_reset(mapOffset_)[1]
                  /\ mapOffset_' = unmap_reset(mapOffset_)[2]
                  /\ UNCHANGED mapHalt
         call(freed) == MapCall("unmap", TRUE, mapOffset_, mapFlags_, NullPtr, {}, freed)
     IN IF ~is_mapped_assert(mapPtr_)
        THEN /\ mapHalt' = "assertion failed"
             /\ mapLast' = MapCall("unmap", FALSE, mapOffset_, mapFlags_, NullPtr, {}, <<>>)
             /\ UNCHANGED <<mapOffset_, mapPtr_, mapHeap>>
        ELSE IF ~unmap_frees(mapPtr_, hostPtr_)
        THEN /\ reset
             /\ mapLast' = call(<<>>)
             /\ UNCHANGED mapHeap
        ELSE IF IsBlock(mapPtr_)
        THEN /\ reset
             /\ mapLast' = call(<<mapPtr_>>)
             /\ mapHeap' = {b \in mapHeap : BlockPtr(b.block) # mapPtr_}
        ELSE /\ mapLast' = call(<<mapPtr_>>)
             /\ UNCHANGED mapHeap
             /\ \/ reset
                \/ /\ mapHalt' = "invalid free"
                   /\ UNCHANGED <<mapOffset_, mapPtr_>>
  /\ UNCHANGED <<hostPtr_, size_, mapFlags_, mapMade, mapAllocs>>
  /\ MapFrame

\* buffer_mem_::get_map_flags()
GetMapFlags ==
  /\ MapCallable
  /\ mapCalls' = mapCalls + 1
  /\ mapHalt' = IF is_mapped_assert(mapPtr_) THEN mapHalt ELSE "assertion failed"
  /\ mapLast' = MapCall("get_map_flags", is_mapped_assert(mapPtr_), mapOffset_,
                        mapFlags_, NullPtr, {}, <<>>)
  /\ UNCHANGED <<hostPtr_, size_, mapOffset_, mapPtr_, mapFlags_, mapMade,
                 mapHeap, mapAllocs>>
  /\ MapFrame

MapNext ==
  \/ \E host_ptr \in {NullPtr, HostMem}, size \in 1 .. MaxBufSize :
       NewBuffer(host_ptr, size)
  \/ \E offset \in 0 .. size_ - 1, flags \in MapFlagValues : MapToPtr(offset, flags)
  \/ Unmap
  \/ GetMapFlags

MapSpec == RcSpecInit /\ [][MapNext]_vars

\* ---------------------------------------- kernel argument table (ArgSpec)

ArgFrame == UNCHANGED <<queueVars, histVars, concVars, rcVars, objVars, delVars,
                        evVars, mapVars, poolVars>>

\* std::vector::resize(n, fill)
Resize(seq, n, fill) ==
  IF n <= Len(seq) THEN SubSeq(seq, 1, n)
  ELSE seq \o [k \in 1 .. n - Len(seq) |-> fill]

\* std::accumulate over the first n entries, starting from 0
RECURSIVE Accumulate(_, _)
Accumulate(seq, n) == IF n = 0 THEN 0 ELSE seq[n] + Accumulate(seq, n - 1)

\* std::min
StdMin(a, b) == IF b < a THEN b ELSE a

\* arguments::get_local_size()
get_local_size(offsetPerIndex) ==
  Accumulate(offsetPerIndex, Len(offsetPerIndex)) % UINT32

\* std::memcpy(&storage_[pos], bytes, size)
Memcpy(storage, pos, bytes) ==
  [k \in 1 .. Len(storage) |->
     IF k > pos /\ k <= pos + Len(bytes) THEN bytes[k - pos] ELSE storage[k]]

\* the n bytes of a size_t in memory, least significant first
RECURSIVE SizeTBytes(_, _)
SizeTBytes(v, n) ==
  IF n = 0 THEN <<>>
  ELSE <<v % ByteRange>> \o SizeTBytes(v \div ByteRange, n - 1)

\* the bytes a caller of add_arg passes: size bytes of the value v
ArgValues == {65, 66}
ArgData(size, v) == [k \in 1 .. size |-> v]

\* indices_.resize(index + 2, indices_.back()) when the pointer list is short
GrowIndicesShort(indices, index) ==
  IF index + 2 > Len(indices)
  THEN Resize(indices, index + 1, indices[Len(indices)])
  ELSE indices
GrowIndices(indices, index) ==
  IF index + 2 > Len(indices)
  THEN Resize(indices, index + 2, indices[Len(indices)])
  ELSE indices

\* arguments::add_arg(index, size, arg, localSize): the tables after the call
add_arg(index, bytes, localSize) ==
  LET grows == index + 2 > Len(indices_)
      indices1 == GrowIndices(indices_, index)
      sizes1 == IF grows THEN Resize(paramSizes_, index + 1, 0) ELSE paramSizes_
      offsets1 == IF grows THEN Resize(offsetPerIndex_, index + 1, 0)
                  ELSE offsetPerIndex_
      sizes2 == [sizes1 EXCEPT ![index + 1] = Len(bytes)]
      insertPos == Accumulate(sizes2, index)
  IN [storage |-> Memcpy(storage_, insertPos, bytes),
      paramSizes |-> sizes2,
      indices |-> [indices1 EXCEPT ![index + 1] = StoragePtr(insertPos)],
      offsetPerIndex |-> [offsets1 EXCEPT ![index + 1] = localSize]]

\* where add_arg copies the argument to: the sizes of the lower indices
InsertPos(index) == Accumulate(paramSizes_, StdMin(index, Len(paramSizes_)))

\* the copy stays inside storage_
Fits(index, size) == InsertPos(index) + size <= MAX_PARAM_BYTES

ArgCallable == argHalt = "no" /\ argCalls < MaxArgCalls

\* the record of a call; copyEnd is the offset in storage_ one past the last
\* byte the call copies (0 when it copies nothing to storage_)
ArgCall(op, accepted, index, size, words) ==
  [op |-> op, accepted |-> accepted, index |-> index, size |-> size,
   localBefore |-> get_local_size(offsetPerIndex_), words |-> words,
   ops |-> argLast.ops \cup {op},
   copyEnd |-> IF op \in {"add_arg", "add_local_arg"}
               THEN InsertPos(index) +
                      (IF op = "add_arg" THEN size ELSE SizeofSizeT)
               ELSE 0]

\* std::memcpy past the end of storage_ is undefined: the process is stopped
\* by the write, or the members behind storage_ are overwritten and nothing
\* further is known of the object
Overrun(index, size) ==
  IF Fits(index, size) THEN {"no"}
  ELSE {"stopped by the write past storage_", "members past storage_ overwritten"}

ApplyAddArg(t) ==
  /\ storage_' = t.storage
  /\ paramSizes_' = t.paramSizes
  /\ indices_' = t.indices
  /\ offsetPerIndex_' = t.offsetPerIndex

\* _pi_kernel::set_kernel_arg -> arguments::add_arg(index, size, arg)
AddArg(index, size, v) ==
  /\ ArgCallable
  /\ argCalls' = argCalls + 1
  /\ ApplyAddArg(add_arg(index, ArgData(size, v), 0))
  /\ argWritten' = [argWritten EXCEPT
                      ![index] = [kind |-> "value", bytes |-> ArgData(size, v),
                                  align |-> 0, local |-> 0]]
  /\ argLast' = ArgCall("add_arg", TRUE, index, size, <<>>)
  /\ argHalt' \in Overrun(index, size)
  /\ UNCHANGED implicitOffsetArgs_
  /\ ArgFrame

\* the sizes of local memory a caller asks for
LocalSizes == {4, 8, 200}

\* the padding step of add_local_arg
AlignUpNone(localOffset, alignment) == localOffset
AlignUp(localOffset, alignment) ==
  IF localOffset % alignment # 0
  THEN localOffset + (alignment - (localOffset % alignment))
  ELSE localOffset

\* _pi_kernel::set_kernel_local_arg -> arguments::add_local_arg(index, size)
AddLocalArg(index, size) ==
  /\ ArgCallable
  /\ argCalls' = argCalls + 1
  /\ LET localOffset == get_local_size(offsetPerIndex_)
         alignment == StdMin(MaxAlignment, size)
         alignedLocalOffset == AlignUp(localOffset, alignment)
         bytes == SizeTBytes(alignedLocalOffset, SizeofSizeT)
     IN /\ ApplyAddArg(add_arg(index, bytes,
                               size + (alignedLocalOffset - localOffset)))
        /\ argWritten' = [argWritten EXCEPT
                            ![index] = [kind |-> "local", bytes |-> bytes,
                                        align |-> alignment, local |-> size]]
  /\ argLast' = ArgCall("add_local_arg", TRUE, index, size, <<>>)
  /\ argHalt' \in Overrun(index, SizeofSizeT)
  /\ UNCHANGED implicitOffsetArgs_
  /\ ArgFrame

\* assert(size == sizeof(std::uint32_t) * 3) of set_implicit_offset
set_implicit_offset_assert_open(size) == TRUE
set_implicit_offset_assert(size) == size = SizeofUint32 * 3

\* std::memcpy(implicitOffsetArgs_, implicitOffset, size), in whole words
MemcpyWords(dst, src, size) ==
  [k \in 1 .. Len(dst) |-> IF k * SizeofUint32 <= size THEN src[k] ELSE dst[k]]

\* the sizes and offsets a caller of set_implicit_offset passes
ImplicitSizes == {SizeofUint32 * n : n \in 2 .. 4}
ImplicitOffsets == {<<1, 2, 3>>, <<4, 0, 0>>}

\* _pi_kernel::set_implicit_offset_arg -> arguments::set_implicit_offset
SetImplicitOffset(size, implicitOffset) ==
  /\ ArgCallable
  /\ argCalls' = argCalls + 1
  /\ IF set_implicit_offset_assert(size)
     THEN /\ implicitOffsetArgs_' = MemcpyWords(implicitOffsetArgs_, implicitOffset, size)
          /\ UNCHANGED argHalt
     ELSE /\ argHalt' = "assertion failed"
          /\ UNCHANGED implicitOffsetArgs_
  /\ argLast' = ArgCall("set_implicit_offset", set_implicit_offset_assert(size),
                        0, size, implicitOffset)
  /\ UNCHANGED <<storage_, paramSizes_, indices_, offsetPerIndex_, argWritten>>
  /\ ArgFrame

\* arguments::clear_local_size()
ClearLocalSize ==
  /\ ArgCallable
  /\ argCalls' = argCalls + 1
  /\ offsetPerIndex_' = [k \in 1 .. Len(offsetPerIndex_) |-> 0]
  /\ argLast' = ArgCall("clear_local_size", TRUE, 0, 0, <<>>)
  /\ UNCHANGED <<storage_, paramSizes_, indices_, implicitOffsetArgs_,
                 argWritten, argHalt>>
  /\ ArgFrame

ArgNext ==
  \/ \E index \in ArgIndexes, size \in 1 .. MaxArgSize, v \in ArgValues :
       AddArg(index, size, v)
  \/ \E index \in ArgIndexes, size \in LocalSizes : AddLocalArg(index, size)
  \/ \E size \in ImplicitSizes, implicitOffset \in ImplicitOffsets :
       SetImplicitOffset(size, implicitOffset)
  \/ ClearLocalSize

ArgSpec == RcSpecInit /\ [][ArgNext]_vars

\* ------------------------- event ids and stream visits of a queue (PoolSpec)

\* return eventCount_++ : the count before the increment
get_next_event_id_post(count) ==
  [count |-> Inc32(count), ret |-> count]

\* _pi_queue::get_next_event_id: return ++eventCount_, one atomic
\* read-modify-write
get_next_event_id(count) ==
  [count |-> Inc32(count), ret |-> Inc32(count)]

PoolFrame == UNCHANGED <<queueVars, histVars, rcVars, objVars, delVars, evVars,
                         mapVars, argVars, tWaitList, tIdx, tToken, tSlot,
                         tGuard, tReset>>

\* a thread calls get_next_event_id()
GetNextEventId(t) ==
  /\ pc[t] = "idle" /\ Len(eventIds) < MaxEventIds
  /\ eventCount_' = get_next_event_id(eventCount_).count
  /\ eventIds' = Append(eventIds, get_next_event_id(eventCount_).ret)
  /\ UNCHANGED <<mutex, pc, concOps, tOp, tVisit, tRet>>
  /\ PoolFrame

\* the whole pool, created or not
VisitEndWhole(size, num) == size

\* std::min(static_cast<unsigned int>(streams.size()), num_streams): one past
\* the last stream all_of and for_each_stream look at
VisitEnd(size, num) == StdMin(size, num)

\* the calls of f by the loop of for_each_stream over the first end streams
\* of a pool: every stream, the result of f is not looked at
ForEach(pool, end) == [k \in 1 .. end |-> <<pool, k - 1, TRUE>>]

\* the calls of f by std::all_of over the first end streams of a pool, f being
\* false first for stream firstFalse (for none when firstFalse = end): the
\* algorithm stops at the first stream for which f is false
StdAllOf(pool, end, firstFalse) ==
  [k \in 1 .. StdMin(firstFalse + 1, end) |-> <<pool, k - 1, k - 1 # firstFalse>>]

\* a thread calls for_each_stream(f)
StartForEachStream(t) ==
  /\ pc[t] = "idle" /\ concOps < MaxConcOps
  /\ concOps' = concOps + 1
  /\ tOp' = [tOp EXCEPT ![t] = "for_each_stream"]
  /\ tVisit' = [tVisit EXCEPT ![t] = <<>>]
  /\ SetPc(t, "visit_lock_compute")
  /\ UNCHANGED <<mutex, eventCount_, eventIds, tRet>>
  /\ PoolFrame

\* a thread calls all_of(f)
StartAllOf(t) ==
  /\ pc[t] = "idle" /\ concOps < MaxConcOps
  /\ concOps' = concOps + 1
  /\ tOp' = [tOp EXCEPT ![t] = "all_of"]
  /\ tVisit' = [tVisit EXCEPT ![t] = <<>>]
  /\ SetPc(t, "visit_lock_compute")
  /\ UNCHANGED <<mutex, eventCount_, eventIds, tRet>>
  /\ PoolFrame

\* std::lock_guard compute_guard(compute_stream_mutex_)
VisitLockCompute(t) ==
  /\ pc[t] = "visit_lock_compute"
  /\ Acquire(t, "compute_stream_mutex_")
  /\ SetPc(t, "visit_compute")
  /\ UNCHANGED <<concOps, eventCount_, eventIds, tOp, tVisit, tRet>>
  /\ PoolFrame

\* the compute block under its lock: for_each_stream calls f on every stream
\* up to end; all_of returns false when std::all_of does
VisitCompute(t) ==
  /\ pc[t] = "visit_compute"
  /\ LET end == VisitEnd(NumComputeStreams, num_compute_streams_)
     IN  IF tOp[t] = "for_each_stream"
           THEN /\ tVisit' = [tVisit EXCEPT ![t] = @ \o ForEach("compute", end)]
                /\ SetPc(t, "visit_lock_transfer")
                /\ UNCHANGED tRet
           ELSE \E firstFalse \in 0 .. end :
                  /\ tVisit' = [tVisit EXCEPT
                                  ![t] = @ \o StdAllOf("compute", end, firstFalse)]
                  /\ IF firstFalse < end
                       THEN /\ tRet' = [tRet EXCEPT ![t] = FALSE]
                            /\ SetPc(t, "idle")
                       ELSE /\ SetPc(t, "visit_lock_transfer")
                            /\ UNCHANGED tRet
  /\ mutex' = [mutex EXCEPT !["compute_stream_mutex_"] = 0]
  /\ UNCHANGED <<concOps, eventCount_, eventIds, tOp>>
  /\ PoolFrame

\* std::lock_guard transfer_guard(transfer_stream_mutex_)
VisitLockTransfer(t) ==
  /\ pc[t] = "visit_lock_transfer"
  /\ Acquire(t, "transfer_stream_mutex_")
  /\ SetPc(t, "visit_transfer")
  /\ UNCHANGED <<concOps, eventCount_, eventIds, tOp, tVisit, tRet>>
  /\ PoolFrame

\* the transfer block under its lock; all_of returns true after it unless
\* std::all_of was false
VisitTransfer(t) ==
  /\ pc[t] = "visit_transfer"
  /\ LET end == VisitEnd(NumTransferStreams, num_transfer_streams_)
     IN  IF tOp[t] = "for_each_stream"
           THEN /\ tVisit' = [tVisit EXCEPT ![t] = @ \o ForEach("transfer", end)]
                /\ UNCHANGED tRet
           ELSE \E firstFalse \in 0 .. end :
                  /\ tVisit' = [tVisit EXCEPT
                                  ![t] = @ \o StdAllOf("transfer", end, firstFalse)]
                  /\ tRet' = [tRet EXCEPT ![t] = ~(firstFalse < end)]
  /\ mutex' = [mutex EXCEPT !["transfer_stream_mutex_"] = 0]
  /\ SetPc(t, "idle")
  /\ UNCHANGED <<concOps, eventCount_, eventIds, tOp>>
  /\ PoolFrame

PoolNext ==
  \/ \E t \in Threads : StartGetNextComputeStream(t)
  \/ \E t \in Threads : GnCheck(t)
  \/ \E t \in Threads : GnLock(t)
  \/ \E t \in Threads : GnCreate(t)
  \/ \E t \in Threads : GnIdx(t)
  \/ \E t \in Threads : Issue(t)
  \/ \E t \in Threads : GetNextEventId(t)
  \/ \E t \in Threads : StartForEachStream(t)
  \/ \E t \in Threads : StartAllOf(t)
  \/ \E t \in Threads : VisitLockCompute(t)
  \/ \E t \in Threads : VisitCompute(t)
  \/ \E t \in Threads : VisitLockTransfer(t)
  \/ \E t \in Threads : VisitTransfer(t)

\* the queue after k commands on compute streams and j on transfer streams
\* were submitted one after the other, without dependencies
PoolQueueInit ==
  /\ NumComputeStreams \in 1 .. MaxComputeStreams
  /\ NumTransferStreams = MaxTransferStreams
  /\ \E k \in 0 .. MaxPriorCommands :
       /\ compute_stream_idx_ = k
       /\ num_compute_streams_ = StdMin(k, NumComputeStreams)
       /\ events = 0 .. (k - 1)
  /\ \E j \in 0 .. MaxPriorCommands :
       /\ transfer_stream_idx_ = j
       /\ num_transfer_streams_ = StdMin(j, NumTransferStreams)
  /\ last_sync_compute_streams_ = 0
  /\ last_sync_transfer_streams_ = 0
  /\ delay_compute_ = [i \in ComputeSlots |-> FALSE]
  /\ compute_applied_barrier_ = [i \in ComputeSlots |-> FALSE]
  /\ transfer_applied_barrier_ = [i \in TransferSlots |-> FALSE]
  /\ barrier_event_ = 0

PoolSpecInit ==
  /\ PoolQueueInit
  /\ opCount = 0
  /\ lastOp = NoOp
  /\ computeWaitGen = [i \in ComputeSlots |-> 0]
  /\ transferWaitGen = [i \in TransferSlots |-> 0]
  /\ computeWaits = [i \in ComputeSlots |-> 0]
  /\ transferWaits = [i \in TransferSlots |-> 0]
  /\ computeWork = [i \in ComputeSlots |-> 0]
  /\ transferWork = [i \in TransferSlots |-> 0]
  /\ reusedEver = FALSE
  /\ nComputeCalls = 0
  /\ nTransferCalls = 0
  /\ preSyncTokens = {}
  /\ ConcInit /\ RcInit /\ ObjInit /\ DelInit /\ EvInit /\ MapInit /\ ArgInit
  /\ PoolInit

PoolSpec == PoolSpecInit /\ [][PoolNext]_vars

\* ------------------------------------------------------------ properties

WorkKinds == {"compute", "compute_dep", "transfer"}

\* the stream the last operation returned waited last on this barrier
LastStreamWaitGen ==
  IF lastOp.pool = "compute"
    THEN computeWaitGen[lastOp.slot]
    ELSE transferWaitGen[lastOp.slot]

\* C1: once a barrier has been enqueued, every stream that is handed out for
\* new work (compute or transfer, round-robin or reused, created before or
\* after the barrier) has had a wait on that barrier's event injected: the
\* event the stream waited on last is the one the latest barrier recorded.
C1_BarrierPrecedesWork ==
  barrier_event_ # 0 =>
    /\ lastOp.kind \in WorkKinds => LastStreamWaitGen = barrier_event_
    /\ \A i \in ComputeSlots :
         computeWork[i] > 0 => computeWaitGen[i] = barrier_event_
    /\ \A i \in TransferSlots :
         transferWork[i] > 0 => transferWaitGen[i] = barrier_event_

\* C1 witness: the first transfer stream is created and selected after two
\* barriers, and the wait on the second barrier's event is injected into it
C1_Witness ==
  /\ barrier_event_ = 2
  /\ lastOp.kind = "transfer"
  /\ nTransferCalls = 1
  /\ lastOp.waited
  /\ transferWaitGen[lastOp.slot] = 2

\* C2: per stream, at most one wait is injected after a barrier: the first
\* command issued on a stream after the barrier injects it and sets the
\* stream's barrier-applied flag, every later command on it injects none.
C2_BarrierAppliedOnce ==
  barrier_event_ # 0 =>
    /\ \A i \in ComputeSlots :
         /\ computeWaits[i] <= 1
         /\ computeWork[i] > 0 =>
              computeWaits[i] = 1 /\ compute_applied_barrier_[i]
    /\ \A i \in TransferSlots :
         /\ transferWaits[i] <= 1
         /\ transferWork[i] > 0 =>
              transferWaits[i] = 1 /\ transfer_applied_barrier_[i]
    /\ lastOp.kind \in WorkKinds =>
         (lastOp.waited <=>
            (IF lastOp.pool = "compute"
               THEN computeWork[lastOp.slot]
               ELSE transferWork[lastOp.slot]) = 1)

\* C2 witness: a queue with 2 compute streams, a barrier, then a second
\* command on a compute stream that already waited for the barrier
C2_Witness ==
  /\ NumComputeStreams = 2
  /\ barrier_event_ = 1
  /\ lastOp.kind = "compute"
  /\ computeWork[lastOp.slot] = 2
  /\ computeWaits[lastOp.slot] = 1
  /\ ~lastOp.waited

\* C3: without dependency reuse the k-th stream selection from the compute
\* pool (k = 0, 1, ...) gets token k and the stream at slot k mod N; the k-th
\* get_next_transfer_stream gets slot k mod (transfer pool size).
C3_RoundRobin ==
  /\ (~reusedEver /\ lastOp.pool = "compute") =>
       /\ lastOp.token = nComputeCalls - 1
       /\ lastOp.slot = (nComputeCalls - 1) % NumComputeStreams
  /\ lastOp.pool = "transfer" =>
       lastOp.slot = (nTransferCalls - 1) % NumTransferStreams

\* C3 witness: the (N+1)-th call on a pool of N = 3 streams returns stream 0
C3_Witness ==
  /\ ~reusedEver
  /\ NumComputeStreams = 3
  /\ nComputeCalls = NumComputeStreams + 1
  /\ lastOp.kind = "compute"
  /\ lastOp.slot = 0

\* the reuse condition as the specification states it: (a) a compute stream
\* token, (b) compute_stream_idx - token <= pool size, (c) last_sync <= token
SpecReusable(token) ==
  /\ token # Sentinel
  /\ Sub32(compute_stream_idx_, token) <= NumComputeStreams
  /\ last_sync_compute_streams_ <= token

\* C4: get_next_compute_stream(wait_list, ...) reuses the stream of a
\* wait-list event exactly when some event of the list satisfies (a), (b) and
\* (c) in the state the call is made in, and round-robins otherwise.
C4_ReuseExactlyWhen ==
  [][ (opCount' = opCount + 1 /\ lastOp'.kind = "compute_dep") =>
        (lastOp'.reused <=>
           \E k \in 1 .. Len(lastOp'.wait_list) :
              SpecReusable(lastOp'.wait_list[k])) ]_vars

\* tokens a caller may hold
Tokens == 0 .. (MaxOps + MaxComputeStreams)

\* C5: can_reuse_stream is false for the sentinel token and for every token
\* last_sync_compute_streams_ has advanced past; the token of an event made
\* before a sync_streams<true> is never reusable afterwards.
C5_NoReuseAfterSync ==
  /\ ~can_reuse_stream(Sentinel)
  /\ \A t \in Tokens :
       last_sync_compute_streams_ > t => ~can_reuse_stream(t)
  /\ \A t \in preSyncTokens : ~can_reuse_stream(t)

\* C5 witness: a command depends on the latest command of a stream, made
\* before a sync_streams<true>, and is not given that stream
C5_Witness ==
  /\ lastOp.kind = "compute_dep"
  /\ ~lastOp.reused
  /\ Len(lastOp.wait_list) = 1
  /\ lastOp.wait_list[1] \in preSyncTokens \ {Sentinel}
  /\ Sub32(lastOp.token, lastOp.wait_list[1]) <= NumComputeStreams

SeqRange(q) == {q[k] : k \in 1 .. Len(q)}
NoDuplicates(q) == \A j, k \in 1 .. Len(q) : j # k => q[j] # q[k]
\* places where a sequence of slots stops being contiguous
Breaks(q) == Cardinality({k \in 1 .. (Len(q) - 1) : q[k + 1] # q[k] + 1})

\* C8: a sync_streams call (queue finish, or the one a barrier with an empty
\* wait list makes after selecting its stream) applies fn to every stream at
\* slot i mod size for frontier <= i < position, in both pools, visits no
\* stream twice, and visits at most two contiguous slot ranges per pool.
C8_SyncCoversPending ==
  [][ (opCount' = opCount + 1 /\
       (lastOp'.kind = "sync_streams" \/
        (lastOp'.kind = "barrier" /\ lastOp'.wait_list = <<>>))) =>
        LET cEnd == SyncEnd(num_compute_streams_', compute_stream_idx_', NumComputeStreams)
            tEnd == SyncEnd(num_transfer_streams_', transfer_stream_idx_', NumTransferStreams)
        IN  /\ {i % NumComputeStreams : i \in last_sync_compute_streams_ .. (cEnd - 1)}
                 \subseteq SeqRange(lastOp'.fn_compute)
            /\ {i % NumTransferStreams : i \in last_sync_transfer_streams_ .. (tEnd - 1)}
                 \subseteq SeqRange(lastOp'.fn_transfer)
            /\ NoDuplicates(lastOp'.fn_compute)
            /\ NoDuplicates(lastOp'.fn_transfer)
            /\ Breaks(lastOp'.fn_compute) <= 1
            /\ Breaks(lastOp'.fn_transfer) <= 1
            /\ SeqRange(lastOp'.fn_compute) \subseteq ComputeSlots
            /\ SeqRange(lastOp'.fn_transfer) \subseteq TransferSlots ]_vars

\* C8 witness: the pending compute streams wrap around the end of a pool of
\* 3: fn is applied to slot 2 and then to slot 0
C8_Witness ==
  /\ lastOp.kind \in {"sync_streams", "barrier"}
  /\ NumComputeStreams = 3
  /\ lastOp.fn_compute = <<2, 0>>

\* C9: sync_streams<true> moves both frontiers to the position of their pool
\* (the created-stream count while the pool is not fully created),
\* sync_streams<false> leaves both where they are, and neither changes
\* compute_stream_idx_ or transfer_stream_idx_.
C9_SyncFrame ==
  [][ (opCount' = opCount + 1 /\ lastOp'.kind = "sync_streams") =>
        /\ compute_stream_idx_' = compute_stream_idx_
        /\ transfer_stream_idx_' = transfer_stream_idx_
        /\ IF lastOp'.reset
             THEN /\ last_sync_compute_streams_' =
                       (IF num_compute_streams_ < NumComputeStreams
                          THEN num_compute_streams_
                          ELSE compute_stream_idx_)
                  /\ last_sync_transfer_streams_' =
                       (IF num_transfer_streams_ < NumTransferStreams
                          THEN num_transfer_streams_
                          ELSE transfer_stream_idx_)
             ELSE /\ last_sync_compute_streams_' = last_sync_compute_streams_
                  /\ last_sync_transfer_streams_' = last_sync_transfer_streams_ ]_vars

\* C9 witness: a sync_streams<true> that moved the compute frontier of a
\* fully created pool and the transfer frontier of a partly created one
C9_Witness ==
  /\ lastOp.kind = "sync_streams"
  /\ lastOp.reset
  /\ num_compute_streams_ = NumComputeStreams
  /\ last_sync_compute_streams_ = compute_stream_idx_
  /\ compute_stream_idx_ > 0
  /\ num_transfer_streams_ < NumTransferStreams
  /\ last_sync_transfer_streams_ = 1

\* the mutex a thread is about to lock ("none": it is not at a lock)
Want(t) ==
  CASE pc[t] = "dep_lock" -> "compute_stream_sync_mutex_"
    [] pc[t] = "gn_lock" -> "compute_stream_mutex_"
    [] pc[t] = "ss_lock1" -> SyncStreamsLockOrder[1]
    [] pc[t] = "ss_lock2" -> SyncStreamsLockOrder[2]
    [] pc[t] = "ss_lock_transfer" -> "transfer_stream_mutex_"
    [] OTHER -> "none"

\* C6: a thread whose stream selection returned a reused stream owns
\* compute_stream_sync_mutex_ through its guard until it has issued its work,
\* so no two threads hold a reused stream at the same time and no thread
\* passes the locked re-check while another holds one.
C6_GuardExclusive ==
  \A t \in Threads :
    /\ tGuard[t] =>
         /\ mutex["compute_stream_sync_mutex_"] = t
         /\ \A u \in Threads \ {t} : ~tGuard[u] /\ pc[u] # "dep_recheck"
    /\ pc[t] = "dep_recheck" => mutex["compute_stream_sync_mutex_"] = t

\* C6 witness: one thread is issuing work on a reused stream while another,
\* depending on the same stream, is held at the lock
C6_Witness ==
  \E t, u \in Threads :
    /\ t # u
    /\ pc[t] = "issue" /\ tGuard[t]
    /\ pc[u] = "dep_lock"
    /\ SlotOf(tWaitList[u][tIdx[u]], NumComputeStreams) = tSlot[t]

\* C7: no thread locks compute_stream_sync_mutex_ while it owns
\* compute_stream_mutex_, and no set of threads running sync_streams and
\* stream selections blocks itself: of every set of threads some thread is
\* not waiting for a mutex owned inside the set.
C7_LockOrderNoDeadlock ==
  /\ \A t \in Threads :
       mutex["compute_stream_mutex_"] = t => Want(t) # "compute_stream_sync_mutex_"
  /\ \A S \in (SUBSET Threads) \ {{}} :
       \E t \in S : ~(Want(t) # "none" /\ mutex[Want(t)] \in S)

\* C7 witness: a thread in sync_streams owns both mutexes while another
\* waits for compute_stream_sync_mutex_ to reuse a stream
C7_Witness ==
  \E t, u \in Threads :
    /\ pc[t] = "ss_compute"
    /\ mutex["compute_stream_sync_mutex_"] = t
    /\ mutex["compute_stream_mutex_"] = t
    /\ pc[u] = "dep_lock"

RECURSIVE SumHeld(_)
SumHeld(S) ==
  IF S = {}
    THEN 0
    ELSE LET t == CHOOSE x \in S : TRUE IN held[t] + SumHeld(S \ {t})

\* threads whose release returned 0 and that have not destroyed yet
ZeroObservers == {t \in RcThreads : rcPc[t] = "released" /\ rcRet[t] = 0}

\* C10: under every interleaving of retains and releases the counter equals
\* the number of references owned (no update is lost), exactly one release
\* gets 0 back once the counter is 0 and none before, and the object is
\* destroyed once, by the thread whose decrement took the counter to 0.
C10_DestroyedOnce ==
  /\ refCount_ = SumHeld(RcThreads)
  /\ Cardinality(ZeroObservers) + Len(destroyedBy) = (IF refCount_ = 0 THEN 1 ELSE 0)
  /\ \A t \in ZeroObservers : t = zeroedBy
  /\ destroyedBy # <<>> => destroyedBy = <<zeroedBy>>

\* C10 witness: three threads owned references, and the object was destroyed
\* by the last one to release, not by its creator
C10_Witness ==
  /\ destroyedBy = <<3>>
  /\ rcRet[1] = 2
  /\ rcRet[2] = 1

\* ----------------------------------------------- properties of ObjSpec

\* C11: a constructor leaves the new object's count at 1 (also when it
\* retained what the object holds); a retain returns the count after the
\* increment and a release the count after the decrement, one more and one
\* less than the count before the call.
C11_CountOnConstruction ==
  LET h == objLast.obj
  IN  /\ objLast.op = "create" =>
            /\ objs[h].refCount_ = 1
            /\ \A g \in Handles(objs) : g # h /\ objs[g].kind = "device" =>
                  objs[g].refCount_ = 1
      /\ objLast.op = "retain" =>
            /\ objLast.ret = objs[h].refCount_
            /\ objLast.ret = objLast.was + 1
      /\ objLast.op = "release" =>
            /\ objLast.ret = objs[h].refCount_
            /\ objLast.ret = objLast.was - 1

\* C11 witness: a program that was retained once is released: the release
\* returns 1, after a kernel was made from it and released again
C11_Witness ==
  /\ objLast.op = "release"
  /\ objs[objLast.obj].kind = "program"
  /\ objLast.was = 2
  /\ objLast.ret = 1
  /\ objs[objLast.obj].ext = 1
  /\ \E k \in Handles(objs) : objs[k].kind = "kernel" /\ ~objs[k].live

\* C12: a retain followed at once by a release of the same object leaves
\* its count where it was before the retain, and the object alive.
C12_RetainReleaseNeutral ==
  LET h == objLast.obj
  IN  (objLast.op = "release" /\ objLast.prevOp = "retain")
        => /\ objLast.prevWas >= 1
           /\ objs[h].refCount_ = objLast.prevWas
           /\ objs[h].live

\* C12 witness: a kernel with count 1 was retained and then released
C12_Witness ==
  /\ objLast.op = "release"
  /\ objLast.prevOp = "retain"
  /\ objs[objLast.obj].kind = "kernel"
  /\ objLast.prevWas = 1
  /\ objs[objLast.obj].refCount_ = 1

LiveHandles == {h \in Handles(objs) : objs[h].live}

\* live queues and contexts that reference device d
DeviceHolders(d) ==
  {g \in LiveHandles : objs[g].kind \in {"context", "queue"} /\ objs[g].device_ = d}

\* live queues that reference context c
QueuesOf(c) == {g \in LiveHandles : objs[g].kind = "queue" /\ objs[g].context_ = c}

KeptAlive ==
  \A g \in LiveHandles :
    /\ objs[g].kind = "context" => objs[objs[g].device_].live
    /\ objs[g].kind = "queue" =>
          objs[objs[g].context_].live /\ objs[objs[g].device_].live

Occurrences(hs, h) == Cardinality({k \in 1 .. Len(hs) : hs[k] = h})

RECURSIVE SumOver(_, _)
SumOver(S, f) ==
  IF S = {}
    THEN 0
    ELSE LET x == CHOOSE y \in S : TRUE IN f[x] + SumOver(S \ {x}, f)

\* references to h that live objects took in their constructors
HeldBy(h) ==
  SumOver(LiveHandles, [g \in LiveHandles |-> Occurrences(CtorRetains(objs[g]), h)])

\* C15: an object that is constructed and then destroyed leaves every count
\* as it was before the construction; a counted object is destroyed exactly
\* when its count is zero, a destruction releasing what the object held:
\* a live object's count is the references callers own plus one for every
\* live object that retained it in its constructor.
C15_CascadeBalanced ==
  /\ (/\ objLast.op = "release"
      /\ objLast.prevOp = "create"
      /\ ~objs[objLast.obj].live)
        => \A g \in DOMAIN objLast.prevBefore :
             objs[g].refCount_ = objLast.prevBefore[g]
  /\ \A h \in Handles(objs) : Counted(objs[h]) =>
        /\ objs[h].live <=> objs[h].refCount_ >= 1
        /\ objs[h].refCount_ = objs[h].ext + HeldBy(h)

\* C15 witness: the release of a sub-buffer destroyed it, then its parent,
\* then the parent's context (the caller had given up both before)
C15_Witness ==
  /\ objLast.op = "release"
  /\ is_sub_buffer(objs[objLast.obj])
  /\ ~objs[objLast.obj].live
  /\ ~objs[objs[objLast.obj].parent_].live
  /\ ~objs[objs[objLast.obj].context_].live
  /\ objs[objs[objLast.obj].context_].refCount_ = 0

\* live sub-buffers of buffer b
SubBuffersOf(b) == {g \in LiveHandles : is_sub_buffer(objs[g]) /\ objs[g].parent_ = b}

\* live objects, other than sub-buffers, whose context is c
DirectHoldersOf(c) ==
  {g \in LiveHandles : /\ objs[g].kind \in {"buffer", "image", "queue", "kernel"}
                       /\ ~is_sub_buffer(objs[g])
                       /\ objs[g].context_ = c}

ParentKept == \A s \in LiveHandles : is_sub_buffer(objs[s]) => objs[objs[s].parent_].live

\* C16 as stated: a parent is not destroyed while a sub-buffer of it is
\* live, and its count is at least 1 + the number of its live sub-buffers.
C16_ParentOutlivesSubBuffer ==
  /\ ParentKept
  /\ \A b \in LiveOf("buffer") :
        objs[b].refCount_ >= 1 + Cardinality(SubBuffersOf(b))

\* C16 amended: a parent is not destroyed while a sub-buffer of it is live;
\* its count is the callers' references plus the number of its live
\* sub-buffers, so at least that number; a sub-buffer adds nothing to the
\* count of the context.
C16_ParentOutlivesSubBufferAmended ==
  /\ ParentKept
  /\ \A b \in LiveOf("buffer") :
        /\ objs[b].refCount_ = objs[b].ext + Cardinality(SubBuffersOf(b))
        /\ objs[b].refCount_ >= Cardinality(SubBuffersOf(b))
  /\ \A c \in LiveOf("context") :
        objs[c].refCount_ = objs[c].ext + Cardinality(DirectHoldersOf(c))

\* C16 witness: the caller released the parent; it lives on with count 1,
\* kept by its one live sub-buffer
C16_Witness ==
  \E s \in LiveHandles :
    /\ is_sub_buffer(objs[s])
    /\ objs[objs[s].parent_].ext = 0
    /\ objs[objs[s].parent_].refCount_ = 1
    /\ objs[objs[s].parent_].live
    /\ objLast.op = "release"
    /\ objLast.obj = objs[s].parent_

\* ----------------------------------------------- properties of DelSpec

\* threads between the lock and the unlock of _pi_context::mutex_
InDeleterSection == {t \in RcThreads : rcPc[t] \in {"set_emplace", "invoke_loop"}}

\* C17: the callbacks are called only at teardown, under the lock, in the
\* order set_extended_deleter took them; when the context is deleted each
\* registered callback was called exactly once; a registration and the
\* invocation are never inside the lock together.
C17_DeletersOnceInOrder ==
  /\ Len(invoked) <= Len(registered)
  /\ \A k \in 1 .. Len(invoked) : invoked[k] = registered[k]
  /\ NoDuplicates(invoked)
  /\ destroyedBy # <<>> => invoked = registered
  /\ invoked # <<>> => refCount_ = 0 /\ \A t \in RcThreads : delCb[t] = 0
  /\ Cardinality(InDeleterSection) <= 1
  /\ \A t \in InDeleterSection : mutex_ = t

\* C17 witness: two threads called set_extended_deleter; the one that called
\* second got the lock first; both callbacks were called in the order of
\* the vector by the thread that took the count to zero, which then deleted
\* the context
C17_Witness ==
  /\ destroyedBy = <<2>>
  /\ registered = <<2, 1>>
  /\ invoked = <<2, 1>>
  /\ rcRet[1] = 1

\* ------------------------------------------------ properties of EvSpec

Statuses == {"PI_EVENT_SUBMITTED", "PI_EVENT_RUNNING", "PI_EVENT_COMPLETE"}

\* C18: get_execution_status gives SUBMITTED for an event that is not
\* recorded, RUNNING for one recorded and not completed, COMPLETE for one
\* recorded and completed, and nothing else.
C18_StatusMapping ==
  \A e \in EventIds :
    LET st == get_execution_status(e)
    IN  /\ st \in Statuses
        /\ ~isRecorded_[e] => st = "PI_EVENT_SUBMITTED"
        /\ (isRecorded_[e] /\ ~is_completed(e)) => st = "PI_EVENT_RUNNING"
        /\ (isRecorded_[e] /\ is_completed(e)) => st = "PI_EVENT_COMPLETE"
        /\ (isRecorded_[e] /\ ~evDone[e] /\ ~hasBeenWaitedOn_[e]) => st = "PI_EVENT_RUNNING"
        /\ (isRecorded_[e] /\ evDone[e]) => st = "PI_EVENT_COMPLETE"

\* C18 witness: callers saw one event RUNNING while the other, started and
\* not recorded yet, was seen SUBMITTED and a third state, COMPLETE, is the
\* first event's status now
C18_Witness ==
  /\ evSeen[1] = "PI_EVENT_RUNNING"
  /\ get_execution_status(1) = "PI_EVENT_COMPLETE"
  /\ evSeen[2] = "PI_EVENT_SUBMITTED"
  /\ isStarted_[2]
  /\ ~isRecorded_[2]

StatusRank(st) ==
  CASE st = "PI_EVENT_SUBMITTED" -> 0
    [] st = "PI_EVENT_RUNNING" -> 1
    [] OTHER -> 2

\* C19: an event is never completed while not recorded, and from one state
\* to the next its status never moves back: not from COMPLETE to RUNNING or
\* SUBMITTED, not from RUNNING to SUBMITTED.
C19_StatusForwardOnly ==
  [][\A e \in EventIds :
       /\ is_completed(e) => is_recorded(e)
       /\ is_completed(e)' => is_recorded(e)'
       /\ StatusRank(get_execution_status(e)) <= StatusRank(get_execution_status(e)')]_vars

\* C19 witness: an event was seen SUBMITTED, then RUNNING, and is COMPLETE
\* now without any wait() on it
C19_Witness ==
  /\ evSeen[1] = "PI_EVENT_RUNNING"
  /\ get_execution_status(1) = "PI_EVENT_COMPLETE"
  /\ ~hasBeenWaitedOn_[1]
  /\ \A t \in Waiters : evWaiting[t] = 0

\* C20: once a wait() on an event has returned, the event is marked as
\* waited on, its command has completed, and in this and every later state
\* is_completed is true and the status is COMPLETE.
C20_WaitImpliesComplete ==
  \A e \in EventIds :
    waitReturned[e] =>
      /\ hasBeenWaitedOn_[e]
      /\ evDone[e]
      /\ isRecorded_[e]
      /\ is_completed(e)
      /\ get_execution_status(e) = "PI_EVENT_COMPLETE"

\* C20 witness: a thread called wait() on an event before it was recorded
\* (it was seen SUBMITTED), and the wait has returned; another thread is
\* still blocked in wait() on the second event, which is RUNNING
C20_Witness ==
  /\ waitReturned[1]
  /\ hasBeenWaitedOn_[1]
  /\ evSeen[1] = "PI_EVENT_SUBMITTED"
  /\ evWaiting[2] = 2
  /\ get_execution_status(2) = "PI_EVENT_RUNNING"

\* ------------------------------------------- properties of RcMisuseSpec

\* C13: once the counter of an object has reached zero no retain or release
\* goes on with a changed counter (the call is fatal instead).
C13_NoChangeAfterZero == [][refCount_ = 0 => refCount_' = 0]_vars


\* ----------------------------------------------- properties of MapSpec

\* C21: map_to_ptr on a buffer that already has a mapped region fails its
\* assertion: the call changes nothing, allocates nothing, and the buffer
\* never has a second live scratch mapping. unmap and get_map_flags on a
\* buffer with no mapped region fail their assertions as well.
C21_ContractViolationsRejected ==
  /\ (mapLast.op = "map_to_ptr" /\ mapLast.was # NullPtr) =>
       /\ ~mapLast.accepted
       /\ mapHalt = "assertion failed"
       /\ mapPtr_ = mapLast.was
       /\ mapLast.allocated = {}
  /\ (mapLast.op \in {"unmap", "get_map_flags"} /\ mapLast.was = NullPtr) =>
       /\ ~mapLast.accepted
       /\ mapHalt = "assertion failed"
       /\ mapPtr_ = NullPtr
  /\ Cardinality(mapHeap) <= 1

\* a second map_to_ptr on a mapped buffer was made and rejected
C21_Witness ==
  /\ mapLast.op = "map_to_ptr"
  /\ mapLast.was # NullPtr
  /\ mapLast.prevOp = "map_to_ptr"
  /\ mapHalt = "assertion failed"

\* C22: the mapping state of a buffer is Unmapped (mapPtr_ null, mapOffset_ 0)
\* or Mapped (mapPtr_ non-null). A new buffer is Unmapped; an accepted
\* map_to_ptr(offset, flags) starts Unmapped and ends Mapped with the offset
\* and flags recorded; an accepted unmap starts Mapped and ends Unmapped with
\* mapPtr_ null and mapOffset_ 0, which is the state map_to_ptr accepts; at
\* most one region is mapped at any time.
C22_MappingStateMachine ==
  (mapMade /\ mapHalt = "no") =>
    /\ mapPtr_ = NullPtr => mapOffset_ = 0
    /\ mapLast.op = "create" => mapPtr_ = NullPtr
    /\ mapLast.op = "map_to_ptr" =>
         /\ mapLast.was = NullPtr
         /\ mapPtr_ # NullPtr
         /\ mapPtr_ = mapLast.ret
         /\ mapOffset_ = mapLast.offset
         /\ mapFlags_ = mapLast.flags
    /\ mapLast.op = "unmap" =>
         /\ mapLast.was # NullPtr
         /\ mapPtr_ = NullPtr
         /\ mapOffset_ = 0
    /\ mapLast.op = "get_map_flags" => mapPtr_ # NullPtr
    /\ Cardinality(mapHeap) <= 1
    /\ (mapHeap # {} /\ hostPtr_ = NullPtr) => mapPtr_ # NullPtr

\* a map_to_ptr at an offset above 0 was accepted right after an unmap
C22_Witness ==
  /\ mapHalt = "no"
  /\ mapLast.op = "map_to_ptr"
  /\ mapLast.accepted
  /\ mapLast.prevOp = "unmap"
  /\ mapOffset_ > 0

\* C23: with a host pointer, map_to_ptr returns hostPtr_ + offset and
\* allocates nothing, and the unmap that follows frees nothing, whatever the
\* offset; without a host pointer, map_to_ptr allocates one scratch block of
\* the size of the buffer and the unmap that follows frees that block and
\* nothing else.
C23_ZeroCopyFreesNothing ==
  /\ (mapLast.op = "map_to_ptr" /\ mapLast.accepted) =>
       IF hostPtr_ # NullPtr
       THEN /\ mapLast.ret = PtrAdd(hostPtr_, mapLast.offset)
            /\ mapLast.allocated = {}
       ELSE /\ Cardinality(mapLast.allocated) = 1
            /\ \A b \in mapLast.allocated :
                 b.size = size_ /\ mapLast.ret = BlockPtr(b.block)
  /\ (mapLast.op = "unmap" /\ mapLast.accepted) =>
       IF hostPtr_ # NullPtr
       THEN mapLast.freed = <<>>
       ELSE mapLast.freed = <<mapLast.was>> /\ mapHeap = {}


\* ----------------------------------------------- properties of ArgSpec

\* the indices that add_arg or add_local_arg has set
SetIndexes == {i \in ArgIndexes : argWritten[i].kind # "unset"}

\* the size bytes of storage_ a pointer of get_indices() points to
ReadBytes(ptr, size) == SubSeq(storage_, ptr.off + 1, ptr.off + size)

\* C24: after any sequence of add_arg calls, whatever the order of the
\* indices and the sizes, the pointer get_indices() holds for a set index
\* points to size bytes that equal the value written last for that index.
C24_ArgumentsReadBack ==
  argLast.ops \subseteq {"add_arg"} =>
    \A i \in SetIndexes :
      /\ indices_[i + 1].region = "storage_"
      /\ ReadBytes(indices_[i + 1], paramSizes_[i + 1]) = argWritten[i].bytes

\* C25: the byte ranges [pointer, pointer + size) of two set indices do not
\* overlap, and each argument is stored at the offset that is the sum of the
\* sizes of the arguments of lower index.
C25_RangesDisjoint ==
  \A i \in SetIndexes :
    /\ indices_[i + 1].off = Accumulate(paramSizes_, i)
    /\ \A j \in SetIndexes \ {i} :
         \/ indices_[i + 1].off + paramSizes_[i + 1] <= indices_[j + 1].off
         \/ indices_[j + 1].off + paramSizes_[j + 1] <= indices_[i + 1].off

\* the highest index set so far, -1 when none is
HighestSet ==
  IF SetIndexes = {} THEN 0 - 1
  ELSE CHOOSE i \in SetIndexes : \A j \in SetIndexes : j <= i

\* C26: the last entry of the pointer list is the implicit-offset block; the
\* pointer list has (highest index set + 1) + 1 entries, the size table and
\* the local-span table have (highest index set + 1) entries.
C26_ImplicitSlotAtTail ==
  /\ indices_[Len(indices_)] = ImplicitPtr
  /\ Len(indices_) = (HighestSet + 1) + 1
  /\ Len(paramSizes_) = HighestSet + 1
  /\ Len(offsetPerIndex_) = HighestSet + 1

\* the tables grew past a gap: index 2 is set, index 1 never was, and the
\* last call set index 0
C26_Witness ==
  /\ argWritten[2].kind # "unset"
  /\ argWritten[1].kind = "unset"
  /\ argWritten[0].kind # "unset"
  /\ argLast.index = 0
  /\ Len(indices_) = 4

\* the size_t whose bytes in memory are given, least significant first
RECURSIVE SizeTValue(_)
SizeTValue(bytes) ==
  IF bytes = <<>> THEN 0 ELSE Head(bytes) + ByteRange * SizeTValue(Tail(bytes))

\* the local offset stored for an index
StoredOffset(i) == SizeTValue(ReadBytes(indices_[i + 1], SizeofSizeT))

\* the smallest multiple of the alignment that is not below an offset
SmallestMultiple(alignment, from) ==
  CHOOSE m \in from .. from + alignment - 1 : m % alignment = 0

\* C27: add_local_arg(index, size) with size >= 1 stores for the index the
\* smallest multiple of min(size, 16 * sizeof(double)) that is not below
\* get_local_size() before the call, and records as its span the size plus
\* the padding. (A call whose copy runs past storage_ is undefined and
\* stores nothing that can be read back.)
C27_LocalOffsetAligned ==
  (argLast.op = "add_local_arg" /\ argLast.copyEnd <= MAX_PARAM_BYTES) =>
    LET alignment == IF argLast.size < MaxAlignment THEN argLast.size
                     ELSE MaxAlignment
        offset == SmallestMultiple(alignment, argLast.localBefore)
    IN /\ StoredOffset(argLast.index) = offset
       /\ paramSizes_[argLast.index + 1] = SizeofSizeT
       /\ offsetPerIndex_[argLast.index + 1] =
            argLast.size + (offset - argLast.localBefore)

\* add_local_arg(0, 4) then add_local_arg(1, 8): offsets 0 and 8, local
\* size 16
C27_Witness ==
  /\ argLast.op = "add_local_arg"
  /\ argLast.index = 1
  /\ argLast.size = 8
  /\ argLast.localBefore = 4
  /\ argWritten[0].kind = "local"
  /\ StoredOffset(0) = 0
  /\ StoredOffset(1) = 8
  /\ get_local_size(offsetPerIndex_) = 16

\* the indices set by add_local_arg
LocalIndexes == {i \in ArgIndexes : argWritten[i].kind = "local"}

\* C28: after add_local_arg calls in any order of the indices, the stored
\* local offsets do not decrease with the argument index and each is a
\* multiple of the alignment of its argument.
C28_LocalOffsetsMonotone ==
  argLast.ops \subseteq {"add_local_arg"} =>
    \A i \in LocalIndexes :
      /\ StoredOffset(i) % argWritten[i].align = 0
      /\ \A j \in LocalIndexes : i < j => StoredOffset(i) <= StoredOffset(j)

\* C29: set_implicit_offset is accepted exactly when size is 12 bytes; an
\* accepted call leaves the three given words in implicitOffsetArgs_ and
\* changes no argument byte, size, pointer or local span; a rejected call
\* stops at the assertion.
C29_ImplicitOffsetOnly ==
  [][(argCalls' # argCalls /\ argLast'.op = "set_implicit_offset") =>
       /\ argLast'.accepted <=> argLast'.size = 12
       /\ argLast'.accepted => implicitOffsetArgs_' = argLast'.words
       /\ ~argLast'.accepted =>
            argHalt' = "assertion failed" /\ UNCHANGED implicitOffsetArgs_
       /\ UNCHANGED <<storage_, paramSizes_, indices_, offsetPerIndex_>>]_vars

\* an accepted set_implicit_offset on a table that holds arguments
C29_Witness ==
  /\ argLast.op = "set_implicit_offset"
  /\ argLast.accepted
  /\ argLast.size = 12
  /\ implicitOffsetArgs_ = <<1, 2, 3>>
  /\ paramSizes_ # <<>>


\* ------------------------------- properties of Spec: the sync frontier

\* commands selected round-robin from the compute pool since the frontier
\* last moved
ComputeLag == Sub32(compute_stream_idx_, last_sync_compute_streams_)

OpStep == opCount' = opCount + 1

\* the step is a stream selection, of a command or of a barrier, that took
\* the round-robin path
RoundRobinStep == OpStep /\ lastOp'.pool = "compute" /\ ~lastOp'.reused

\* the step runs sync_streams: a queue finish, or a barrier with an empty
\* wait list
SyncStep ==
  /\ OpStep
  /\ \/ lastOp'.kind = "sync_streams"
     \/ lastOp'.kind = "barrier" /\ lastOp'.wait_list = <<>>

\* the compute slots whose delay flag the step clears
DelayCleared == {i \in ComputeSlots : delay_compute_[i] /\ ~delay_compute_'[i]}

\* what C33 says of every sync and every selection: a reuse sets the delay
\* flag of its stream, a round-robin selection advances the index by one
\* more for every delayed slot it clears, and sync_streams leaves the delay
\* flag clear on every compute stream it visits
DelayRules ==
  /\ (OpStep /\ lastOp'.reused) => delay_compute_'[lastOp'.slot]
  /\ (RoundRobinStep /\ ~SyncStep) =>
       /\ Sub32(compute_stream_idx_', compute_stream_idx_) = 1 + Cardinality(DelayCleared)
       /\ lastOp'.token = Sub32(compute_stream_idx_', 1)
       /\ \A i \in DelayCleared :
            \E k \in 0 .. (Cardinality(DelayCleared) - 1) :
              i = SlotOf(compute_stream_idx_ + k, NumComputeStreams)
  /\ SyncStep => \A k \in 1 .. Len(lastOp'.fn_compute) :
                   ~delay_compute_'[lastOp'.fn_compute[k]]

\* C33 as stated: a stream handed out by reuse has its delay flag set, and
\* the flag stays until the round-robin selection lands on the stream, skips
\* it and clears the flag (one skip for the reuse); sync_streams clears the
\* flag of every compute stream it synchronizes.
C33_SkippedOnceAfterReuse ==
  [][DelayRules /\ (DelayCleared # {} => RoundRobinStep)]_vars

\* C33, amended: a set delay flag is cleared either by the round-robin
\* selection that skips the stream or by a sync_streams that visits it,
\* whichever comes first; so a reuse is followed by at most one skip.
C33_SkippedAtMostOnce ==
  [][DelayRules /\ (DelayCleared # {} => (RoundRobinStep \/ SyncStep))]_vars

\* the round-robin selection made last skipped the delayed slot before the
\* one it returned: the token before its own was handed to no command
C33_Witness ==
  /\ lastOp.pool = "compute"
  /\ ~lastOp.reused
  /\ reusedEver
  /\ lastOp.token >= 1
  /\ (lastOp.token - 1) \notin events

\* C35: sync_streams applies fn only to streams at the slots of the indices
\* from the frontier up to the position, in both pools; when the frontier
\* equals the position it applies fn to no stream.
C35_SyncOnlyPending ==
  [][(OpStep /\ lastOp'.kind = "sync_streams") =>
       LET cEnd == SyncEnd(num_compute_streams_, compute_stream_idx_, NumComputeStreams)
           tEnd == SyncEnd(num_transfer_streams_, transfer_stream_idx_, NumTransferStreams)
       IN /\ SeqRange(lastOp'.fn_compute) \subseteq
               {i % NumComputeStreams : i \in last_sync_compute_streams_ .. (cEnd - 1)}
          /\ SeqRange(lastOp'.fn_transfer) \subseteq
               {i % NumTransferStreams : i \in last_sync_transfer_streams_ .. (tEnd - 1)}
          /\ last_sync_compute_streams_ = cEnd => lastOp'.fn_compute = <<>>
          /\ last_sync_transfer_streams_ = tEnd => lastOp'.fn_transfer = <<>>]_vars


\* ---------------------------------------------------------------------
\* properties of ConcSpec: the sync frontier under interleaving

\* C36: in every reachable state, under any interleaving of stream selection
\* and sync_streams<true>, the sync frontier of each pool is at or behind the
\* round-robin position of that pool.
C36_FrontierBehindPosition ==
  /\ last_sync_compute_streams_ <= compute_stream_idx_
  /\ last_sync_transfer_streams_ <= transfer_stream_idx_


\* ---------------------------------------------------------------------
\* properties of ArgSpec: the capacity of storage_ and the local regions

\* C38: every add_arg / add_local_arg call copies inside the backing store:
\* the sizes of the lower-indexed arguments plus the size copied are at most
\* MAX_PARAM_BYTES, and no call writes past the end of storage_.
C38_WritesInsideStore == argLast.copyEnd <= MAX_PARAM_BYTES

\* the local arguments set since the last clear_local_size
LiveLocalIndexes == {i \in LocalIndexes : offsetPerIndex_[i + 1] # 0}

\* the local-memory region of a local argument: the offset computed by the
\* call that set it and the size that call asked for
LocalRegion(i) ==
  LET offset == SizeTValue(argWritten[i].bytes)
  IN offset .. (offset + argWritten[i].local - 1)

\* C39: after add_local_arg and clear_local_size calls alone, re-setting an
\* index included, the local regions of distinct local arguments are pairwise
\* disjoint and lie within [0, get_local_size()).
C39_LocalRegionsDisjoint ==
  (argHalt = "no" /\ argLast.ops \subseteq {"add_local_arg", "clear_local_size"}) =>
    /\ \A i, j \in LiveLocalIndexes :
         i # j => LocalRegion(i) \cap LocalRegion(j) = {}
    /\ \A i \in LiveLocalIndexes :
         LocalRegion(i) \subseteq 0 .. (get_local_size(offsetPerIndex_) - 1)


\* ---------------------------------------------------------------------
\* properties of PoolSpec: tokens, event ids and stream visits

\* C31: under any interleaving of get_next_compute_stream calls that
\* round-robin, every call gets a token no other call got, the position has
\* advanced by one per call (the tokens handed out are 0 .. position - 1), and
\* two callers that hold the same stream at once hold tokens that differ by a
\* multiple of the pool size.
C31_DistinctTokens ==
  /\ events = 0 .. (compute_stream_idx_ - 1)
  /\ \A t, u \in Threads :
       (t # u /\ pc[t] = "issue" /\ pc[u] = "issue") =>
         /\ tToken[t] # tToken[u]
         /\ tSlot[t] = tSlot[u] =>
              \E n \in 1 .. MaxConcOps :
                Sub32(tToken[t], tToken[u]) \in
                  {n * NumComputeStreams, UINT32 - n * NumComputeStreams}

\* two callers hold the same stream of a pool of two or more at once
C31_Witness ==
  /\ NumComputeStreams >= 2
  /\ \A t \in Threads : pc[t] = "issue"
  /\ \A t, u \in Threads : tSlot[t] = tSlot[u]

\* C32: the event ids of a queue are 1, 2, 3, ... in the order of the calls,
\* whatever thread makes them: unique and strictly increasing.
C32_EventIdsCount ==
  /\ \A k \in 1 .. Len(eventIds) : eventIds[k] = k
  /\ eventCount_ = Len(eventIds)

\* the ids were handed out while another thread was inside a queue operation
C32_Witness == Len(eventIds) = MaxEventIds /\ \E t \in Threads : pc[t] # "idle"

\* one past the last created stream of a pool
CreatedEnd(size, num) == IF num < size THEN num ELSE size

\* the calls of f on the first n streams of a pool, in order, f true
FirstStreams(pool, n) == [k \in 1 .. n |-> <<pool, k - 1, TRUE>>]

\* a thread leaves the compute block / the transfer block of its visit
LeavesCompute(t) == pc[t] = "visit_compute" /\ pc'[t] # "visit_compute"
LeavesTransfer(t) == pc[t] = "visit_transfer" /\ pc'[t] # "visit_transfer"

\* the block calls f on every created stream of the pool, once and in order,
\* under the pool's mutex
VisitsAllCompute(t) ==
  /\ mutex["compute_stream_mutex_"] = t
  /\ tVisit'[t] = tVisit[t] \o
       FirstStreams("compute", CreatedEnd(NumComputeStreams, num_compute_streams_))
  /\ pc'[t] = "visit_lock_transfer"
VisitsAllTransfer(t) ==
  /\ mutex["transfer_stream_mutex_"] = t
  /\ tVisit'[t] = tVisit[t] \o
       FirstStreams("transfer", CreatedEnd(NumTransferStreams, num_transfer_streams_))
  /\ pc'[t] = "idle"

\* the block of all_of calls f on the created streams of the pool in order,
\* under the pool's mutex, up to and including the first one for which f is
\* false; all_of then returns false without looking at any other stream
VisitsUntilFalse(t, pool, name, end, after) ==
  /\ mutex[name] = t
  /\ \E n \in 0 .. end :
       \/ /\ n = end
          /\ tVisit'[t] = tVisit[t] \o FirstStreams(pool, n)
          /\ pc'[t] = after
          /\ after = "idle" => tRet'[t]
       \/ /\ n < end
          /\ tVisit'[t] = tVisit[t] \o FirstStreams(pool, n) \o <<<<pool, n, FALSE>>>>
          /\ pc'[t] = "idle"
          /\ ~tRet'[t]

\* C34 as stated: all_of(f) and for_each_stream(f) call f on exactly the
\* created streams, the first min(pool size, num_compute_streams_) compute
\* streams and then the first min(pool size, num_transfer_streams_) transfer
\* streams, each once and each pool under its own mutex.
C34_VisitExactlyCreated ==
  [][\A t \in Threads :
       /\ LeavesCompute(t) => VisitsAllCompute(t)
       /\ LeavesTransfer(t) => VisitsAllTransfer(t)]_vars

\* C34 amended: for_each_stream calls f on exactly the created streams, compute
\* then transfer, each once and each pool under its own mutex; all_of calls f
\* on them in the same order and under the same mutexes until f is false for
\* one, returns false there, and returns true only after calling f on every
\* created stream. Neither looks at a slot whose stream has not been created.
C34_VisitCreatedUntilFalse ==
  [][\A t \in Threads :
       /\ (LeavesCompute(t) /\ tOp[t] = "for_each_stream") => VisitsAllCompute(t)
       /\ (LeavesTransfer(t) /\ tOp[t] = "for_each_stream") => VisitsAllTransfer(t)
       /\ (LeavesCompute(t) /\ tOp[t] = "all_of") =>
            VisitsUntilFalse(t, "compute", "compute_stream_mutex_",
                             CreatedEnd(NumComputeStreams, num_compute_streams_),
                             "visit_lock_transfer")
       /\ (LeavesTransfer(t) /\ tOp[t] = "all_of") =>
            VisitsUntilFalse(t, "transfer", "transfer_stream_mutex_",
                             CreatedEnd(NumTransferStreams, num_transfer_streams_),
                             "idle")]_vars

\* an all_of returned false after f was true for a compute stream and false
\* for the next, with a transfer stream created and not looked at
C34_Witness ==
  \E t \in Threads :
    /\ pc[t] = "idle" /\ tOp[t] = "all_of" /\ ~tRet[t]
    /\ tVisit[t] = <<<<"compute", 0, TRUE>>, <<"compute", 1, FALSE>>>>
    /\ num_transfer_streams_ >= 1


\* ---------------------------------------------------------------------
\* properties of WrapSpec: the reuse decision across the counter wrap

\* the value a counter or token of WrapSpec has when counters are unbounded:
\* every value of WrapSpec is within a few steps of 2^w, a small one is past
\* the wrap
Wide(x) == IF x < UINT32 \div 2 THEN x + UINT32 ELSE x

\* has_been_synchronized and can_reuse_stream on unbounded counters, where
\* no token equals the sentinel
has_been_synchronized_wide(stream_token) ==
  Wide(last_sync_compute_streams_) >= Wide(stream_token)
can_reuse_stream_wide(stream_token) ==
  /\ Wide(compute_stream_idx_) - Wide(stream_token) <= NumComputeStreams
  /\ ~has_been_synchronized_wide(stream_token)

\* C37: for the token of every event made shortly before or after the
\* counters wrap, has_been_synchronized and can_reuse_stream on the 32-bit
\* counters answer as they would on unbounded counters.
C37_ReuseWrapSafe ==
  \A stream_token \in events :
    /\ has_been_synchronized(stream_token) = has_been_synchronized_wide(stream_token)
    /\ can_reuse_stream(stream_token) = can_reuse_stream_wide(stream_token)

====
